---- MODULE Spec2Model ----
(***************************************************************************)
(* Model of the FD-handoff graceful-restart server (src/unnamed/part_001). *)
(*                                                                         *)
(* A process is a coordinator (func main's dispatch loop and the functions *)
(* it calls: attemptGracefulRestart, shutdownAndExit, waitForDrainAndExit) *)
(* plus the goroutines it starts: the http.Serve goroutine, the readiness  *)
(* reader goroutine and one goroutine per accepted connection, which       *)
(* reports its state changes to connTracker.onState.                       *)
(*                                                                         *)
(* The other programs of the repository follow, each with its own          *)
(* specification over its own variable: the tableflip-based server (tf),   *)
(* the systemd-activation server (sd), the transparent proxy (px), its     *)
(* packet framing (pk) and the iowait stress program (io).                 *)
(***************************************************************************)
EXTENDS Integers, Sequences, FiniteSets, TLC

\* ---------------------------------------------------------------- bounds
MaxProcs   == 3      \* process ids 1..MaxProcs; 1 is the freshly started one
NConns     == 1      \* client connections that may ever be opened
MaxSignals == 2      \* signals the environment delivers in one behaviour
NReqs      == 3      \* requests of the handler specification
NTfReqs    == 3      \* requests served by the tableflip-based server
NSess      == 2      \* sessions of the systemd-activation server
MaxLines   == 4      \* lines a client sends in one session
NPairs     == 1      \* client connections the proxy accepts
MaxBuf     == 1      \* chunks that wait unread on one connection
MaxData    == 2      \* len(msg.Data) of the messages written
MaxRaw     == 6      \* bytes of a stream handed to ReadPacket
NWorkers   == 3      \* goroutines of the iowait program
MaxIter    == 2      \* iterations one goroutine begins

\* ------------------------------------------------------- program constants
SigChCap   == 2      \* make(chan os.Signal, 2)
ReadyPipeFDNum == 4        \* READY_PIPE_FD=4

Procs  == 1..MaxProcs
Conns  == 1..NConns
Reqs   == 1..NReqs
TfReqs == 1..NTfReqs
Pairs  == 1..NPairs
Sess   == 1..NSess
Workers == 1..NWorkers
NoWorker == 0
Ords   == 1..MaxLines       \* ordinals of the commands of a session
Lines  == {"", "a", "exit", "quit"}    \* scanner.Text() of a line
NoProc == 0
NoConn == 0

SIGHUP  == "SIGHUP"
SIGTERM == "SIGTERM"          \* SIGTERM and SIGINT share one case of the switch
Signals == {SIGHUP, SIGTERM}

Sentinel == "ready"           \* strings.TrimSpace("ready\n")
NoLine   == ""                \* what ReadString returns on EOF or on error

StateNew      == "StateNew"
StateActive   == "StateActive"
StateIdle     == "StateIdle"
StateHijacked == "StateHijacked"
StateClosed   == "StateClosed"
ConnStates    == {StateNew, StateActive, StateIdle, StateHijacked, StateClosed}

VARIABLES
    pc,           \* pc[p]: position of process p's main goroutine
    parent,       \* parent[p]: the process that spawned p, NoProc for a fresh start
    readyPipeFD,  \* readyPipeFD[p]: the package variable set by init()
    ln,           \* ln[p]: "none" | "inherited" | "open" | "closed"
    serve,        \* serve[p]: the Serve goroutine / serveErr channel
    sigCh,        \* sigCh[p]: buffered signal channel
    inShutdown,   \* inShutdown[p]: srv.Shutdown has been called
    exitReason,   \* exitReason[p]: "none" | "fatal" | "drained" | "forced"
    loggedAc,     \* loggedAc[p]: the count logged by the force exit
    activeConns,  \* activeConns[p]: the atomic counter
    seen,         \* seen[p]: connTracker.seen
    mu,           \* mu[p]: the connection whose callback holds connTracker.mu
    outcome,      \* outcome[p]: the path by which p's last restart attempt returned:
                  \*   "fileErr" | "pipeErr" | "startErr" | "ready" | "timeout"
    child,        \* child[p]: the process started by p's current attempt
    lf, pr, pw,   \* p's copies of the dup'd listener and of the pipe ends
    rd,           \* rd[p]: the reader goroutine ("done" = readyCh closed)
    line,         \* line[p]: what the reader goroutine read
    pipeBuf,      \* pipeBuf[p]: the sentinel is in the pipe of p's attempt
    cw,           \* cw[q]: q's inherited write end (fd 4)
    shutdownSet,  \* shutdownSet[p]: connections counted when Shutdown was handled
    owner,        \* owner[c]: the process that accepted connection c
    connState,    \* connState[c]: the last http.ConnState reported for c
    prevState,    \* prevState[c]: the state reported before that (kept by Notify)
    cb,           \* cb[c]: pending counter update of c's running callback
    sigsSent,     \* number of signals delivered so far
    sent,         \* sent[q]: number of writes q made to its ready pipe
    gracefulRestart, \* gracefulRestart[p]: os.Getenv("GRACEFUL_RESTART") in p
    acquired,     \* acquired[p]: how p got newListner: "none" | "bind" | "file"
    slowEveryN,   \* getenvInt("SLOW_EVERY_N", 3)
    reqSeq,       \* the request counter of the serving process
    hpc,          \* hpc[r]: position of the handler goroutine of request r
    id,           \* id[r]: the handler's local id
    slow,         \* slow[r]: the handler's local slow
    resp,         \* resp[r]: the req= value written to the response
    tf,           \* the tableflip-based server (second program of part_001)
    sd,           \* the systemd-activation server (part_000)
    px,           \* the transparent proxy (transparentProxy/main.go)
    pk,           \* ReadPacket / WritePacket (transparentProxy/main.go)
    io            \* the iowait stress program (iowait/main.go)

vars == <<pc, parent, readyPipeFD, ln, serve, sigCh, inShutdown, exitReason,
          loggedAc, activeConns, seen, mu, outcome, child, lf, pr, pw, rd,
          line, pipeBuf, cw, shutdownSet, owner, connState, prevState,
          cb, sigsSent, sent, gracefulRestart, acquired,
          slowEveryN, reqSeq, hpc, id, slow, resp, tf, sd, px, pk, io>>

procVars    == <<pc, parent, readyPipeFD, ln, serve, inShutdown, exitReason, loggedAc>>
attemptVars == <<outcome, child, lf, pr, pw, rd, line, pipeBuf>>
trackVars   == <<activeConns, seen, mu, cb>>
connVars    == <<owner, connState>>
startVars   == <<gracefulRestart, acquired>>
handlerVars == <<slowEveryN, reqSeq, hpc, id, slow, resp>>
otherVars   == <<tf, sd, px, pk, io>>
serverVars  == <<pc, parent, readyPipeFD, ln, serve, sigCh, inShutdown, exitReason,
                 loggedAc, activeConns, seen, mu, outcome, child, lf, pr, pw, rd,
                 line, pipeBuf, cw, shutdownSet, owner, connState, prevState,
                 cb, sigsSent, sent, gracefulRestart, acquired,
                 slowEveryN, reqSeq, hpc, id, slow, resp>>

Alive(p) == pc[p] \notin {"unborn", "exited"}

\* The process is in the accept loop of http.Serve on an open listener.
Accepting(p) == Alive(p) /\ ln[p] = "open" /\ serve[p] = "running"

\* Exit status of os.Exit(0) and of log.Fatalf (which calls os.Exit(1)).
ExitCode(p) == IF exitReason[p] = "fatal" THEN 1 ELSE 0

\* ------------------------------------------- first states of the programs
\* tableflip server: func main has not called tableflip.New yet.
TfStart ==
    [pc      |-> "new",       \* position of func main
     upg     |-> FALSE,       \* tableflip.New returned an Upgrader
     ln      |-> "none",      \* the listener of upg.Listen
     serve   |-> "none",      \* the goroutine that calls srv.Serve(ln)
     readied |-> FALSE,       \* upg.Ready returned nil
     exitC   |-> FALSE,       \* the channel of upg.Exit() is closed
     shut    |-> FALSE,       \* srv.Shutdown has been called
     code    |-> -1,          \* exit status, -1 while the process runs
     count   |-> 0,           \* var count int, shared by all handlers
     hpc     |-> [r \in TfReqs |-> "idle"],   \* position of r's handler
     tmp     |-> [r \in TfReqs |-> 0],        \* the value count++ loaded
     slow    |-> [r \in TfReqs |-> FALSE],    \* the handler's local slow
     acc     |-> [r \in TfReqs |-> 0],        \* req= of the "accepted" log line
     rnum    |-> [r \in TfReqs |-> 0],        \* req= of the response
     rslow   |-> [r \in TfReqs |-> FALSE]]    \* slow= of the response

\* systemd-activation server: the listeners are served, no connection yet.
SdStart ==
    [reqCount |-> 0,                           \* var reqCount uint64
     spc      |-> [s \in Sess |-> "none"],     \* position of handleConn
     reqID    |-> [s \in Sess |-> 0],
     nread    |-> [s \in Sess |-> 0],          \* lines Scan has returned
     cmdCount |-> [s \in Sess |-> 0],
     kind     |-> [s \in Sess |-> [k \in Ords |-> "none"]],
                  \* how command k was handled: "exit" | "slow" | "fast"
     reply    |-> [s \in Sess |-> [k \in Ords |-> "none"]]]
                  \* reply to command k: "pending" | "sent" | "lost"
\* transparent proxy: listening, no client accepted yet.
PxStart ==
    [g1    |-> [i \in Pairs |-> "none"],   \* the goroutine of startProxy's loop
     g2    |-> [i \in Pairs |-> "none"],   \* go transferData(clientConn, milterConn)
     cc    |-> [i \in Pairs |-> "none"],   \* clientConn, the proxy's end
     mc    |-> [i \in Pairs |-> "none"],   \* milterConn, the proxy's end
     cpeer |-> [i \in Pairs |-> "none"],   \* the client's end
     mpeer |-> [i \in Pairs |-> "none"],   \* the milter's end
     c2p   |-> [i \in Pairs |-> 0],        \* chunks sent by the client, unread
     m2p   |-> [i \in Pairs |-> 0]]        \* chunks sent by the milter, unread
\* ReadPacket / WritePacket: nothing on the wire, nothing read.
NoMessage == [Code |-> 0, Data |-> <<>>]
PkStart ==
    [step |-> "idle",          \* "msg" | "raw" | "written" | "read"
     msg  |-> NoMessage,       \* the *Message given to WritePacket
     wire |-> <<>>,            \* the bytes the socket will deliver
     res  |-> [kind |-> "none", msg |-> NoMessage, err |-> ""]]
                               \* what ReadPacket did: "msg" | "err" | "panic"
\* iowait: main has created the file and starts the goroutines.
IoStart ==
    [mutex |-> NoWorker,                       \* who locked var mutex, if locked
     fatal |-> FALSE,                          \* "sync: unlock of unlocked mutex"
     wpc   |-> [g \in Workers |-> "unborn"],   \* position in modifyFile2Wait
     iter  |-> [g \in Workers |-> 0],          \* iterations g has begun
     rel   |-> [g \in Workers |-> 0]]          \* Unlock calls of g's iteration

OthersNotStarted ==
    /\ tf = TfStart
    /\ sd = SdStart
    /\ px = PxStart
    /\ pk = PkStart
    /\ io = IoStart

Init ==
    /\ pc          = [p \in Procs |-> IF p = 1 THEN "start" ELSE "unborn"]
    /\ parent      = [p \in Procs |-> NoProc]
    /\ readyPipeFD = [p \in Procs |-> 0]
    /\ ln          = [p \in Procs |-> "none"]
    /\ serve       = [p \in Procs |-> "off"]
    /\ sigCh       = [p \in Procs |-> <<>>]
    /\ inShutdown  = [p \in Procs |-> FALSE]
    /\ exitReason  = [p \in Procs |-> "none"]
    /\ loggedAc    = [p \in Procs |-> 0]
    /\ activeConns = [p \in Procs |-> 0]
    /\ seen        = [p \in Procs |-> {}]
    /\ mu          = [p \in Procs |-> NoConn]
    /\ outcome     = [p \in Procs |-> "none"]
    /\ child       = [p \in Procs |-> NoProc]
    /\ lf          = [p \in Procs |-> "none"]
    /\ pr          = [p \in Procs |-> "none"]
    /\ pw          = [p \in Procs |-> "none"]
    /\ rd          = [p \in Procs |-> "none"]
    /\ line        = [p \in Procs |-> NoLine]
    /\ pipeBuf     = [p \in Procs |-> FALSE]
    /\ cw          = [p \in Procs |-> "none"]
    /\ shutdownSet = [p \in Procs |-> {}]
    /\ owner       = [c \in Conns |-> NoProc]
    /\ connState   = [c \in Conns |-> "none"]
    /\ prevState   = [c \in Conns |-> "none"]
    /\ cb          = [c \in Conns |-> 0]
    /\ sigsSent    = 0
    /\ sent        = [p \in Procs |-> 0]
    /\ \E m \in {"", "1"} :
          gracefulRestart = [p \in Procs |-> IF p = 1 THEN m ELSE ""]
    /\ acquired    = [p \in Procs |-> "none"]
    /\ slowEveryN  = 3
    /\ reqSeq      = 0
    /\ hpc         = [r \in Reqs |-> "idle"]
    /\ id          = [r \in Reqs |-> 0]
    /\ slow        = [r \in Reqs |-> FALSE]
    /\ resp        = [r \in Reqs |-> 0]
    /\ OthersNotStarted

\* The FD-handoff server is not run: its variables keep their first values
\* in the specifications of the other programs.
ServerNotStarted ==
    /\ pc          = [p \in Procs |-> IF p = 1 THEN "start" ELSE "unborn"]
    /\ parent      = [p \in Procs |-> NoProc]
    /\ readyPipeFD = [p \in Procs |-> 0]
    /\ ln          = [p \in Procs |-> "none"]
    /\ serve       = [p \in Procs |-> "off"]
    /\ sigCh       = [p \in Procs |-> <<>>]
    /\ inShutdown  = [p \in Procs |-> FALSE]
    /\ exitReason  = [p \in Procs |-> "none"]
    /\ loggedAc    = [p \in Procs |-> 0]
    /\ activeConns = [p \in Procs |-> 0]
    /\ seen        = [p \in Procs |-> {}]
    /\ mu          = [p \in Procs |-> NoConn]
    /\ outcome     = [p \in Procs |-> "none"]
    /\ child       = [p \in Procs |-> NoProc]
    /\ lf          = [p \in Procs |-> "none"]
    /\ pr          = [p \in Procs |-> "none"]
    /\ pw          = [p \in Procs |-> "none"]
    /\ rd          = [p \in Procs |-> "none"]
    /\ line        = [p \in Procs |-> NoLine]
    /\ pipeBuf     = [p \in Procs |-> FALSE]
    /\ cw          = [p \in Procs |-> "none"]
    /\ shutdownSet = [p \in Procs |-> {}]
    /\ owner       = [c \in Conns |-> NoProc]
    /\ connState   = [c \in Conns |-> "none"]
    /\ prevState   = [c \in Conns |-> "none"]
    /\ cb          = [c \in Conns |-> 0]
    /\ sigsSent    = 0
    /\ sent        = [p \in Procs |-> 0]
    /\ gracefulRestart = [p \in Procs |-> ""]
    /\ acquired    = [p \in Procs |-> "none"]
    /\ slowEveryN  = 3
    /\ reqSeq      = 0
    /\ hpc         = [r \in Reqs |-> "idle"]
    /\ id          = [r \in Reqs |-> 0]
    /\ slow        = [r \in Reqs |-> FALSE]
    /\ resp        = [r \in Reqs |-> 0]

\* ------------------------------------------------------------- startup
\* StartFresh without the test of GRACEFUL_RESTART: the process binds :8080
\* whatever its environment says.
StartFreshIgnoresMarker(p) ==
    /\ pc[p] = "start"
    /\ ln' = [ln EXCEPT ![p] = "open"]
    /\ acquired' = [acquired EXCEPT ![p] = "bind"]
    /\ serve' = [serve EXCEPT ![p] = "running"]
    /\ pc' = [pc EXCEPT ![p] = IF readyPipeFD[p] # 0 THEN "notify" ELSE "select"]
    /\ UNCHANGED <<otherVars, gracefulRestart, handlerVars, parent, readyPipeFD, sigCh,
                   inShutdown, exitReason, loggedAc, attemptVars, trackVars,
                   connVars, cw, shutdownSet, sigsSent, sent, prevState>>

\* main, fresh start: net.ListenTCP succeeds, the Serve goroutine is started,
\* readyPipeFD is 0 so no sentinel is written; the dispatch loop is entered.
StartFresh(p) ==
    /\ pc[p] = "start" /\ gracefulRestart[p] # "1"
    /\ ln' = [ln EXCEPT ![p] = "open"]
    /\ acquired' = [acquired EXCEPT ![p] = "bind"]
    /\ serve' = [serve EXCEPT ![p] = "running"]
    /\ pc' = [pc EXCEPT ![p] = IF readyPipeFD[p] # 0 THEN "notify" ELSE "select"]
    /\ UNCHANGED <<otherVars, gracefulRestart, handlerVars, parent, readyPipeFD, sigCh, inShutdown, exitReason, loggedAc,
                   attemptVars, trackVars, connVars, cw, shutdownSet, sigsSent, sent, prevState>>

\* os.Exit: the goroutines stop, the memory of the process (tracker, attempt
\* state) is gone and the kernel closes every descriptor it held (listener,
\* pipe ends, connections).
Exit(p, reason, ac) ==
    /\ pc' = [pc EXCEPT ![p] = "exited"]
    /\ exitReason' = [exitReason EXCEPT ![p] = reason]
    /\ loggedAc' = [loggedAc EXCEPT ![p] = ac]
    /\ ln' = [ln EXCEPT ![p] = "closed"]
    /\ serve' = [serve EXCEPT ![p] = "off"]
    /\ sigCh' = [sigCh EXCEPT ![p] = <<>>]
    /\ cw' = [cw EXCEPT ![p] = IF @ = "open" THEN "closed" ELSE @]
    /\ rd' = [rd EXCEPT ![p] = "none"]
    /\ line' = [line EXCEPT ![p] = NoLine]
    /\ child' = [child EXCEPT ![p] = NoProc]
    /\ lf' = [lf EXCEPT ![p] = "none"]
    /\ pr' = [pr EXCEPT ![p] = "none"]
    /\ pw' = [pw EXCEPT ![p] = "none"]
    /\ pipeBuf' = [pipeBuf EXCEPT ![p] = FALSE]
    /\ activeConns' = [activeConns EXCEPT ![p] = 0]
    /\ seen' = [seen EXCEPT ![p] = {}]
    /\ mu' = [mu EXCEPT ![p] = NoConn]
    /\ cb' = [c \in DOMAIN cb |-> IF owner[c] = p THEN 0 ELSE cb[c]]
    /\ connState' = [c \in DOMAIN connState |->
                        IF owner[c] = p THEN StateClosed ELSE connState[c]]

\* main, fresh start: net.ListenTCP fails, log.Fatalf.
StartFreshFail(p) ==
    /\ pc[p] = "start" /\ gracefulRestart[p] # "1"
    /\ Exit(p, "fatal", 0)
    /\ UNCHANGED <<otherVars, startVars, handlerVars, parent, readyPipeFD, inShutdown, outcome, owner,
                   shutdownSet, sigsSent, sent, prevState>>

\* main, GRACEFUL_RESTART=1: net.FileListener rebuilds the listener from the
\* inherited descriptor, GRACEFUL_RESTART and GRACEFUL_FD are unset, the
\* Serve goroutine is started.
StartInherited(p) ==
    /\ pc[p] = "start" /\ gracefulRestart[p] = "1"
    /\ ln[p] = "inherited"
    /\ ln' = [ln EXCEPT ![p] = "open"]
    /\ acquired' = [acquired EXCEPT ![p] = "file"]
    /\ gracefulRestart' = [gracefulRestart EXCEPT ![p] = ""]
    /\ serve' = [serve EXCEPT ![p] = "running"]
    /\ pc' = [pc EXCEPT ![p] = IF readyPipeFD[p] # 0 THEN "notify" ELSE "select"]
    /\ UNCHANGED <<otherVars, handlerVars, parent, readyPipeFD, sigCh, inShutdown, exitReason, loggedAc,
                   attemptVars, trackVars, connVars, cw, shutdownSet, sigsSent, sent, prevState>>

\* main, GRACEFUL_RESTART=1: os.NewFile / net.FileListener fails, log.Fatalf.
\* The process dies holding its inherited descriptors, which the kernel closes.
StartInheritedFail(p) ==
    /\ pc[p] = "start" /\ gracefulRestart[p] = "1"
    /\ Exit(p, "fatal", 0)
    /\ UNCHANGED <<otherVars, startVars, handlerVars, parent, readyPipeFD, inShutdown, outcome, owner,
                   shutdownSet, sigsSent, sent, prevState>>

\* The write end that process q inherited belongs to the pipe of its parent's
\* current attempt, and the parent still holds the read end.
PipeLive(q) ==
    /\ parent[q] # NoProc
    /\ child[parent[q]] = q
    /\ pr[parent[q]] = "open"

\* WriteReady writing the sentinel a second time (a retried write).
WriteReadyTwice(q) ==
    /\ pc[q] = "notify"
    /\ pipeBuf' = IF PipeLive(q) THEN [pipeBuf EXCEPT ![parent[q]] = TRUE]
                               ELSE pipeBuf
    /\ sent' = [sent EXCEPT ![q] = @ + 2]
    /\ cw' = [cw EXCEPT ![q] = "closed"]
    /\ pc' = [pc EXCEPT ![q] = "select"]
    /\ UNCHANGED <<otherVars, startVars, handlerVars, parent, readyPipeFD, ln, serve, sigCh, inShutdown, exitReason,
                   loggedAc, outcome, child, lf, pr, pw, rd, line,
                   trackVars, connVars, shutdownSet, sigsSent, prevState>>

\* main: if readyPipeFD != 0, write "ready\n" to the pipe and close it.
\* A write to a pipe without a read end fails (EPIPE) and is only logged.
WriteReady(q) ==
    /\ pc[q] = "notify"
    /\ pipeBuf' = IF PipeLive(q) THEN [pipeBuf EXCEPT ![parent[q]] = TRUE]
                               ELSE pipeBuf
    /\ sent' = [sent EXCEPT ![q] = @ + 1]
    /\ cw' = [cw EXCEPT ![q] = "closed"]
    /\ pc' = [pc EXCEPT ![q] = "select"]
    /\ UNCHANGED <<otherVars, startVars, handlerVars, parent, readyPipeFD, ln, serve, sigCh, inShutdown, exitReason,
                   loggedAc, outcome, child, lf, pr, pw, rd, line,
                   trackVars, connVars, shutdownSet, sigsSent, prevState>>

\* ------------------------------------------------------------- signals
\* signal.Notify(sigCh, SIGHUP, SIGTERM, SIGINT): the runtime does a
\* non-blocking send, a signal that finds the channel full is dropped.
Deliver(p, s) ==
    /\ Alive(p) /\ pc[p] # "start"
    /\ sigsSent < MaxSignals
    /\ sigsSent' = sigsSent + 1
    /\ sigCh' = [sigCh EXCEPT ![p] =
                    IF Len(@) < SigChCap THEN Append(@, s) ELSE @]
    /\ UNCHANGED <<otherVars, startVars, handlerVars, procVars, attemptVars, trackVars, connVars, cw, shutdownSet,
                   sent, prevState>>

\* AtSelect for a dispatcher that takes the next trigger while an attempt is
\* waiting for its successor.
AtSelectDuringAttempt(p) == pc[p] \in {"select", "await"}

\* AtSelect for a dispatcher that takes the next trigger while a shutdown is
\* draining.
AtSelectWhileDraining(p) == pc[p] \in {"select", "shutdown_wait", "drain"}

\* The dispatch loop is blocked in its select.
AtSelect(p) == pc[p] = "select"

\* case sig := <-sigCh, SIGHUP: attemptGracefulRestart(newListner) is called.
RecvSighup(p) ==
    /\ AtSelect(p)
    /\ sigCh[p] # <<>> /\ Head(sigCh[p]) = SIGHUP
    /\ sigCh' = [sigCh EXCEPT ![p] = Tail(@)]
    /\ pc' = [pc EXCEPT ![p] = "attempt"]
    /\ outcome' = [outcome EXCEPT ![p] = "none"]
    /\ UNCHANGED <<otherVars, startVars, handlerVars, parent, readyPipeFD, ln, serve, inShutdown, exitReason, loggedAc,
                   child, lf, pr, pw, rd, line, pipeBuf,
                   trackVars, connVars, cw, shutdownSet, sigsSent, sent, prevState>>

\* RecvSigterm falling into the SIGHUP case: the attempt is started.
RecvSigtermAsUpgrade(p) ==
    /\ AtSelect(p)
    /\ sigCh[p] # <<>> /\ Head(sigCh[p]) = SIGTERM
    /\ sigCh' = [sigCh EXCEPT ![p] = Tail(@)]
    /\ pc' = [pc EXCEPT ![p] = "attempt"]
    /\ UNCHANGED <<otherVars, startVars, handlerVars, parent, readyPipeFD, ln, serve, inShutdown, exitReason, loggedAc,
                   attemptVars, trackVars, connVars, cw, shutdownSet, sigsSent, sent, prevState>>

\* RecvSigterm for a coordinator that takes the Shutdown trigger also while
\* its restart attempt is waiting for the successor.
RecvSigtermDuringAttempt(p) ==
    /\ pc[p] \in {"select", "await"}
    /\ sigCh[p] # <<>> /\ Head(sigCh[p]) = SIGTERM
    /\ sigCh' = [sigCh EXCEPT ![p] = Tail(@)]
    /\ pc' = [pc EXCEPT ![p] = "shutdown"]
    /\ UNCHANGED <<otherVars, startVars, handlerVars, parent, readyPipeFD, ln, serve, inShutdown,
                   exitReason, loggedAc, attemptVars, trackVars, connVars, cw,
                   shutdownSet, sigsSent, sent, prevState>>

\* case sig := <-sigCh, SIGTERM/SIGINT: shutdownAndExit(srv) is called.
RecvSigterm(p) ==
    /\ AtSelect(p)
    /\ sigCh[p] # <<>> /\ Head(sigCh[p]) = SIGTERM
    /\ sigCh' = [sigCh EXCEPT ![p] = Tail(@)]
    /\ pc' = [pc EXCEPT ![p] = "shutdown"]
    /\ UNCHANGED <<otherVars, startVars, handlerVars, parent, readyPipeFD, ln, serve, inShutdown, exitReason, loggedAc,
                   attemptVars, trackVars, connVars, cw, shutdownSet, sigsSent, sent, prevState>>

\* RecvServeErr taking Serve's error and going on with the dispatch loop.
RecvServeErrIgnored(p) ==
    /\ AtSelect(p)
    /\ serve[p] = "returned"
    /\ serve' = [serve EXCEPT ![p] = "taken"]
    /\ UNCHANGED <<otherVars, startVars, handlerVars, pc, parent, readyPipeFD, ln, sigCh, inShutdown, exitReason, loggedAc,
                   attemptVars, trackVars, connVars, cw, shutdownSet, sigsSent, sent, prevState>>

\* RecvServeErr exiting at once when Serve has returned, without the drain.
RecvServeErrExits(p) ==
    /\ AtSelect(p)
    /\ serve[p] = "returned"
    /\ Exit(p, "drained", 0)
    /\ UNCHANGED <<otherVars, startVars, handlerVars, parent, readyPipeFD, inShutdown, outcome, owner,
                   shutdownSet, sigsSent, sent, prevState>>

\* RecvServeErr for a dispatch loop that acts on Serve's return only when the
\* listener was closed, and leaves any other error of Serve in the channel.
RecvServeErrOnlyClosed(p) ==
    /\ AtSelect(p)
    /\ serve[p] = "returned"
    /\ ln[p] = "closed"
    /\ serve' = [serve EXCEPT ![p] = "taken"]
    /\ pc' = [pc EXCEPT ![p] = "drain"]
    /\ UNCHANGED <<otherVars, startVars, handlerVars, parent, readyPipeFD, ln, sigCh, inShutdown,
                   exitReason, loggedAc, attemptVars, trackVars, connVars, cw,
                   shutdownSet, sigsSent, sent, prevState>>

\* case err := <-serveErr: waitForDrainAndExit() is called.
RecvServeErr(p) ==
    /\ AtSelect(p)
    /\ serve[p] = "returned"
    /\ serve' = [serve EXCEPT ![p] = "taken"]
    /\ pc' = [pc EXCEPT ![p] = "drain"]
    /\ UNCHANGED <<otherVars, startVars, handlerVars, parent, readyPipeFD, ln, sigCh, inShutdown, exitReason, loggedAc,
                   attemptVars, trackVars, connVars, cw, shutdownSet, sigsSent, sent, prevState>>

\* ---------------------------------------------------- the Serve goroutine
\* The listener of p is closed (currentLn.Close(), or srv.Shutdown closing
\* the listeners it tracks).  The Accept that srv.Serve is blocked in fails,
\* Serve returns and the goroutine sends the error to the buffered serveErr
\* channel, where the dispatch loop finds it at its next select.
CloseListener(p) ==
    /\ ln' = [ln EXCEPT ![p] = "closed"]
    /\ serve' = [serve EXCEPT ![p] = IF @ = "running" THEN "returned" ELSE @]

\* ------------------------------------------------ attemptGracefulRestart
\* Back in the dispatch loop with the attempt's result.
Return(p, result) ==
    /\ pc' = [pc EXCEPT ![p] = "select"]
    /\ outcome' = [outcome EXCEPT ![p] = result]

\* tcpLn.File() on a closed listener returns an error: log and return.
AttemptFileErr(p) ==
    /\ pc[p] = "attempt"
    /\ ln[p] # "open"
    /\ Return(p, "fileErr")
    /\ UNCHANGED <<otherVars, startVars, handlerVars, parent, readyPipeFD, ln, serve, sigCh, inShutdown, exitReason,
                   loggedAc, child, lf, pr, pw, rd, line, pipeBuf,
                   trackVars, connVars, cw, shutdownSet, sigsSent, sent, prevState>>

\* tcpLn.File() dups the descriptor, os.Pipe() fails: lf.Close() and return.
AttemptPipeErr(p) ==
    /\ pc[p] = "attempt"
    /\ ln[p] = "open"
    /\ lf' = [lf EXCEPT ![p] = "closed"]
    /\ Return(p, "pipeErr")
    /\ UNCHANGED <<otherVars, startVars, handlerVars, parent, readyPipeFD, ln, serve, sigCh, inShutdown, exitReason,
                   loggedAc, child, pr, pw, rd, line, pipeBuf,
                   trackVars, connVars, cw, shutdownSet, sigsSent, sent, prevState>>

\* AttemptStartErr with currentLn closed in place of lf.
AttemptStartErrClosesLn(p) ==
    /\ pc[p] = "attempt"
    /\ ln[p] = "open"
    /\ CloseListener(p)
    /\ pr' = [pr EXCEPT ![p] = "closed"]
    /\ pw' = [pw EXCEPT ![p] = "closed"]
    /\ Return(p, "startErr")
    /\ UNCHANGED <<otherVars, startVars, handlerVars, parent, readyPipeFD, lf, sigCh, inShutdown, exitReason,
                   loggedAc, child, rd, line, pipeBuf,
                   trackVars, connVars, cw, shutdownSet, sigsSent, sent, prevState>>

\* File() and os.Pipe() succeed, cmd.Start() fails: close lf, r and w, return;
\* no process was created.
AttemptStartErr(p) ==
    /\ pc[p] = "attempt"
    /\ ln[p] = "open"
    /\ lf' = [lf EXCEPT ![p] = "closed"]
    /\ pr' = [pr EXCEPT ![p] = "closed"]
    /\ pw' = [pw EXCEPT ![p] = "closed"]
    /\ Return(p, "startErr")
    /\ UNCHANGED <<otherVars, startVars, handlerVars, parent, readyPipeFD, ln, serve, sigCh, inShutdown, exitReason,
                   loggedAc, child, rd, line, pipeBuf,
                   trackVars, connVars, cw, shutdownSet, sigsSent, sent, prevState>>

\* The process id the next successful cmd.Start() creates.
NextPid == CHOOSE q \in Procs :
               pc[q] = "unborn" /\ \A r \in Procs : r < q => pc[r] # "unborn"

\* AttemptStartOk with lf.Close() closing the listener that lf was dup'd from.
AttemptStartOkClosesLn(p) ==
    /\ pc[p] = "attempt"
    /\ ln[p] = "open"
    /\ \E q \in Procs : pc[q] = "unborn"
    /\ LET q == NextPid IN
        /\ pc' = [pc EXCEPT ![p] = "await", ![q] = "start"]
        /\ parent' = [parent EXCEPT ![q] = p]
        /\ readyPipeFD' = [readyPipeFD EXCEPT ![q] = ReadyPipeFDNum]
        /\ ln' = [ln EXCEPT ![q] = "inherited", ![p] = "closed"]
        /\ cw' = [cw EXCEPT ![q] = "open"]
        /\ gracefulRestart' = [gracefulRestart EXCEPT ![q] = "1"]
        /\ child' = [child EXCEPT ![p] = q]
    /\ pr' = [pr EXCEPT ![p] = "open"]
    /\ pw' = [pw EXCEPT ![p] = "closed"]
    /\ lf' = [lf EXCEPT ![p] = "closed"]
    /\ pipeBuf' = [pipeBuf EXCEPT ![p] = FALSE]
    /\ rd' = [rd EXCEPT ![p] = "reading"]
    /\ line' = [line EXCEPT ![p] = NoLine]
    /\ UNCHANGED <<otherVars, acquired, handlerVars, serve, sigCh, inShutdown, exitReason, loggedAc, outcome,
                   trackVars, connVars, shutdownSet, sigsSent, sent, prevState>>

\* AttemptStartOk for a spawner that names the handshake descriptor only in
\* the first generation: the child of a successor gets no READY_PIPE_FD.
AttemptStartOkFirstGenPipe(p) ==
    /\ pc[p] = "attempt"
    /\ ln[p] = "open"
    /\ \E q \in Procs : pc[q] = "unborn"
    /\ LET q == NextPid IN
        /\ pc' = [pc EXCEPT ![p] = "await", ![q] = "start"]
        /\ parent' = [parent EXCEPT ![q] = p]
        /\ readyPipeFD' = [readyPipeFD EXCEPT
                              ![q] = IF parent[p] = NoProc THEN ReadyPipeFDNum ELSE 0]
        /\ ln' = [ln EXCEPT ![q] = "inherited"]
        /\ cw' = [cw EXCEPT ![q] = "open"]
        /\ gracefulRestart' = [gracefulRestart EXCEPT ![q] = "1"]
        /\ child' = [child EXCEPT ![p] = q]
    /\ pr' = [pr EXCEPT ![p] = "open"]
    /\ pw' = [pw EXCEPT ![p] = "closed"]
    /\ lf' = [lf EXCEPT ![p] = "closed"]
    /\ pipeBuf' = [pipeBuf EXCEPT ![p] = FALSE]
    /\ rd' = [rd EXCEPT ![p] = "reading"]
    /\ line' = [line EXCEPT ![p] = NoLine]
    /\ UNCHANGED <<otherVars, acquired, handlerVars, serve, sigCh, inShutdown, exitReason,
                   loggedAc, outcome, trackVars, connVars, shutdownSet, sigsSent,
                   sent, prevState>>

\* AttemptStartOk with a File() that hands out a descriptor also for a closed
\* listener: the attempt spawns whatever the state of currentLn.
AttemptStartOkOnClosed(p) ==
    /\ pc[p] = "attempt"
    /\ \E q \in Procs : pc[q] = "unborn"
    /\ LET q == NextPid IN
        /\ pc' = [pc EXCEPT ![p] = "await", ![q] = "start"]
        /\ parent' = [parent EXCEPT ![q] = p]
        /\ readyPipeFD' = [readyPipeFD EXCEPT ![q] = ReadyPipeFDNum]
        /\ ln' = [ln EXCEPT ![q] = "inherited"]
        /\ cw' = [cw EXCEPT ![q] = "open"]
        /\ gracefulRestart' = [gracefulRestart EXCEPT ![q] = "1"]
        /\ child' = [child EXCEPT ![p] = q]
    /\ pr' = [pr EXCEPT ![p] = "open"]
    /\ pw' = [pw EXCEPT ![p] = "closed"]
    /\ lf' = [lf EXCEPT ![p] = "closed"]
    /\ pipeBuf' = [pipeBuf EXCEPT ![p] = FALSE]
    /\ rd' = [rd EXCEPT ![p] = "reading"]
    /\ line' = [line EXCEPT ![p] = NoLine]
    /\ UNCHANGED <<otherVars, acquired, handlerVars, serve, sigCh, inShutdown, exitReason,
                   loggedAc, outcome, trackVars, connVars, shutdownSet, sigsSent,
                   sent, prevState>>

\* File(), os.Pipe() and cmd.Start() succeed: the child runs with the dup'd
\* listener as fd 3, the write end of the new pipe as fd 4 and
\* GRACEFUL_RESTART=1, READY_PIPE_FD=4 in its environment (its init() sets
\* readyPipeFD).  The parent closes w and lf, keeps r and starts the reader
\* goroutine.
AttemptStartOk(p) ==
    /\ pc[p] = "attempt"
    /\ ln[p] = "open"
    /\ \E q \in Procs : pc[q] = "unborn"
    /\ LET q == NextPid IN
        /\ pc' = [pc EXCEPT ![p] = "await", ![q] = "start"]
        /\ parent' = [parent EXCEPT ![q] = p]
        /\ readyPipeFD' = [readyPipeFD EXCEPT ![q] = ReadyPipeFDNum]
        /\ ln' = [ln EXCEPT ![q] = "inherited"]
        /\ cw' = [cw EXCEPT ![q] = "open"]
        /\ gracefulRestart' = [gracefulRestart EXCEPT ![q] = "1"]
        /\ child' = [child EXCEPT ![p] = q]
    /\ pr' = [pr EXCEPT ![p] = "open"]
    /\ pw' = [pw EXCEPT ![p] = "closed"]
    /\ lf' = [lf EXCEPT ![p] = "closed"]
    /\ pipeBuf' = [pipeBuf EXCEPT ![p] = FALSE]
    /\ rd' = [rd EXCEPT ![p] = "reading"]
    /\ line' = [line EXCEPT ![p] = NoLine]
    /\ UNCHANGED <<otherVars, acquired, handlerVars, serve, sigCh, inShutdown, exitReason, loggedAc, outcome,
                   trackVars, connVars, shutdownSet, sigsSent, sent, prevState>>

\* Some process still holds the write end of the pipe of p's attempt.
WriteEndOpen(p) ==
    \/ pw[p] = "open"
    \/ /\ child[p] # NoProc
       /\ Alive(child[p])
       /\ cw[child[p]] = "open"

\* The reader goroutine: reader.ReadString('\n') returns the sentinel line,
\* or an empty line with io.EOF when the pipe is empty and no write end is
\* left; the deferred close(readyCh) runs in either case.
ReaderRead(p) ==
    /\ rd[p] = "reading"
    /\ pr[p] = "open"
    /\ \/ pipeBuf[p] /\ line' = [line EXCEPT ![p] = Sentinel]
       \/ ~pipeBuf[p] /\ ~WriteEndOpen(p) /\ line' = [line EXCEPT ![p] = NoLine]
    /\ rd' = [rd EXCEPT ![p] = "done"]
    /\ UNCHANGED <<otherVars, startVars, handlerVars, procVars, sigCh, outcome, child, lf, pr, pw, pipeBuf,
                   trackVars, connVars, cw, shutdownSet, sigsSent, sent, prevState>>

\* r.Close() and the return that follows it: what is in the pipe is
\* discarded, a ReadString that is pending on r fails, which ends the reader
\* goroutine, and the line it read goes out of scope.
CloseR(p) ==
    /\ pr' = [pr EXCEPT ![p] = "closed"]
    /\ pipeBuf' = [pipeBuf EXCEPT ![p] = FALSE]
    /\ rd' = [rd EXCEPT ![p] = "done"]
    /\ line' = [line EXCEPT ![p] = NoLine]

\* AwaitReady acting on the closed readyCh also after the attempt has
\* returned as timed out.
AwaitReadyLate(p) ==
    /\ pc[p] \in {"await", "select"}
    /\ rd[p] = "done"
    /\ pc[p] = "select" => (outcome[p] = "timeout" /\ ln[p] = "open")
    /\ CloseListener(p)
    /\ CloseR(p)
    /\ Return(p, "ready")
    /\ UNCHANGED <<otherVars, startVars, handlerVars, parent, readyPipeFD, sigCh, inShutdown, exitReason,
                   loggedAc, child, lf, pw,
                   trackVars, connVars, cw, shutdownSet, sigsSent, sent, prevState>>

\* select, case <-readyCh: currentLn.Close(), r.Close(), return.
AwaitReady(p) ==
    /\ pc[p] = "await"
    /\ rd[p] = "done"
    /\ CloseListener(p)
    /\ CloseR(p)
    /\ Return(p, "ready")
    /\ UNCHANGED <<otherVars, startVars, handlerVars, parent, readyPipeFD, sigCh, inShutdown, exitReason,
                   loggedAc, child, lf, pw,
                   trackVars, connVars, cw, shutdownSet, sigsSent, sent, prevState>>

\* AwaitTimeout for a wait without the timer: the select returns only once
\* readyCh is closed.
AwaitTimeoutNoTimer(p) ==
    /\ pc[p] = "await"
    /\ rd[p] = "done"
    /\ CloseR(p)
    /\ Return(p, "timeout")
    /\ UNCHANGED <<otherVars, startVars, handlerVars, parent, readyPipeFD, ln, serve, sigCh,
                   inShutdown, exitReason, loggedAc, child, lf, pw,
                   trackVars, connVars, cw, shutdownSet, sigsSent, sent, prevState>>

\* AwaitTimeout returning without r.Close(): the read end stays open and the
\* reader goroutine stays blocked on it.
AwaitTimeoutLeaksR(p) ==
    /\ pc[p] = "await"
    /\ Return(p, "timeout")
    /\ UNCHANGED <<otherVars, startVars, handlerVars, parent, readyPipeFD, ln, serve, sigCh,
                   inShutdown, exitReason, loggedAc, child, lf, pr, pw, rd, line,
                   pipeBuf, trackVars, connVars, cw, shutdownSet, sigsSent, sent,
                   prevState>>

\* AwaitTimeout with the listener closed as in the ready case.
AwaitTimeoutClosesLn(p) ==
    /\ pc[p] = "await"
    /\ CloseListener(p)
    /\ CloseR(p)
    /\ Return(p, "timeout")
    /\ UNCHANGED <<otherVars, startVars, handlerVars, parent, readyPipeFD, sigCh, inShutdown, exitReason,
                   loggedAc, child, lf, pw,
                   trackVars, connVars, cw, shutdownSet, sigsSent, sent, prevState>>

\* select, case <-time.After(10s): r.Close(), return.  The timer may fire at
\* any moment of the wait.
AwaitTimeout(p) ==
    /\ pc[p] = "await"
    /\ CloseR(p)
    /\ Return(p, "timeout")
    /\ UNCHANGED <<otherVars, startVars, handlerVars, parent, readyPipeFD, ln, serve, sigCh, inShutdown, exitReason,
                   loggedAc, child, lf, pw,
                   trackVars, connVars, cw, shutdownSet, sigsSent, sent, prevState>>

\* ------------------------------------------------------------ connTracker
\* connTracker.onState, the membership set after the switch.
onStateSeen(s, c, st) ==
    CASE st = StateActive -> s \cup {c}
      [] st \in {StateIdle, StateHijacked, StateClosed} -> s \ {c}
      [] OTHER -> s

\* onStateDelta decrementing without the t.seen[c] test.
onStateDeltaDecAlways(s, c, st) ==
    CASE st = StateActive /\ c \notin s -> 1
      [] st \in {StateIdle, StateHijacked, StateClosed} -> -1
      [] OTHER -> 0

\* onStateDelta incrementing without the !t.seen[c] test.
onStateDeltaIncAlways(s, c, st) ==
    CASE st = StateActive -> 1
      [] st \in {StateIdle, StateHijacked, StateClosed} /\ c \in s -> -1
      [] OTHER -> 0

\* connTracker.onState, the value added to activeConns by the switch.
onStateDelta(s, c, st) ==
    CASE st = StateActive /\ c \notin s -> 1
      [] st \in {StateIdle, StateHijacked, StateClosed} /\ c \in s -> -1
      [] OTHER -> 0

\* The ConnState hook is called for connection c with state st: onState
\* takes t.mu and updates t.seen.  When the counter has to change, the
\* callback still holds the mutex and has its atomic.AddInt64 ahead;
\* otherwise it has returned.
OnState(c, st) ==
    LET p == owner[c] IN
    /\ p # NoProc /\ Alive(p)
    /\ mu[p] = NoConn
    /\ connState' = [connState EXCEPT ![c] = st]
    /\ seen' = [seen EXCEPT ![p] = onStateSeen(@, c, st)]
    /\ cb' = [cb EXCEPT ![c] = onStateDelta(seen[p], c, st)]
    /\ mu' = [mu EXCEPT ![p] = IF onStateDelta(seen[p], c, st) # 0 THEN c ELSE NoConn]

\* The rest of the callback: atomic.AddInt64(&activeConns, +-1), then the
\* deferred t.mu.Unlock().
OnStateAdd(c) ==
    LET p == owner[c] IN
    /\ cb[c] # 0
    /\ Alive(p)
    /\ activeConns' = [activeConns EXCEPT ![p] = @ + cb[c]]
    /\ cb' = [cb EXCEPT ![c] = 0]
    /\ mu' = [mu EXCEPT ![p] = NoConn]
    /\ UNCHANGED <<otherVars, startVars, handlerVars, procVars, sigCh, attemptVars, seen, connVars, cw,
                   shutdownSet, sigsSent, sent, prevState>>

\* ------------------------------------------------ connections (net/http)
\* The Serve loop accepts connection c and reports StateNew for it.
Accept(p, c) ==
    /\ Accepting(p)
    /\ owner[c] = NoProc
    /\ \A d \in Conns : d < c => owner[d] # NoProc
    /\ owner' = [owner EXCEPT ![c] = p]
    /\ connState' = [connState EXCEPT ![c] = StateNew]
    /\ UNCHANGED <<otherVars, startVars, handlerVars, procVars, sigCh, attemptVars, trackVars, cw,
                   shutdownSet, sigsSent, sent, prevState>>

\* The states net/http reports after state from for a connection of process
\* p: a request is read (Active), its response is written (Idle), the
\* connection ends (Closed).  This server never hijacks.  Once srv.Shutdown
\* was called, keep-alives are off and idle connections are closed.
HttpNext(p, from) ==
    CASE from = StateNew    -> {StateActive, StateClosed}
      [] from = StateActive -> {StateIdle, StateClosed}
      [] from = StateIdle   -> IF inShutdown[p] THEN {StateClosed}
                                               ELSE {StateActive, StateClosed}
      [] OTHER -> {}

\* A connection of a running process moves on and its goroutine calls the
\* ConnState hook with the new state.  The callback is taken whole: it runs
\* under t.mu, and the one reader outside the mutex (atomic.LoadInt64 in
\* waitForDrainAndExit) reads the counter alone, so for it the callback
\* happens at its atomic.AddInt64.  SpecTracker takes it in its two steps.
ConnStep(c, st) ==
    LET p == owner[c] IN
    /\ p # NoProc /\ Alive(p)
    /\ st \in HttpNext(p, connState[c])
    /\ connState' = [connState EXCEPT ![c] = st]
    /\ seen' = [seen EXCEPT ![p] = onStateSeen(@, c, st)]
    /\ activeConns' = [activeConns EXCEPT ![p] = @ + onStateDelta(seen[p], c, st)]
    /\ UNCHANGED <<otherVars, startVars, handlerVars, procVars, sigCh, attemptVars, mu, cb, owner, cw,
                   shutdownSet, sigsSent, sent, prevState>>

\* The connections whose +1 is in activeConns[p] and whose work is going on.
Counted(p) == {c \in seen[p] : cb[c] = 0}

\* ----------------------------------------------------- shutdownAndExit
\* srv.Shutdown(ctx) begins: the server is marked as shutting down and its
\* listener is closed.
ShutdownBegin(p) ==
    /\ pc[p] = "shutdown"
    /\ inShutdown' = [inShutdown EXCEPT ![p] = TRUE]
    /\ CloseListener(p)
    /\ shutdownSet' = [shutdownSet EXCEPT ![p] = Counted(p)]
    /\ pc' = [pc EXCEPT ![p] = "shutdown_wait"]
    /\ UNCHANGED <<otherVars, startVars, handlerVars, parent, readyPipeFD, sigCh, exitReason, loggedAc,
                   attemptVars, trackVars, connVars, cw, sigsSent, sent, prevState>>

\* No connection of p is still new or active.
Quiescent(p) ==
    \A c \in Conns : owner[c] = p => connState[c] \in {StateIdle, StateClosed}

\* srv.Shutdown(ctx) returns, when the connections are quiescent or when the
\* 30 s context expires; waitForDrainAndExit() is called.
ShutdownReturn(p) ==
    /\ pc[p] = "shutdown_wait"
    /\ \E expired \in BOOLEAN : expired \/ Quiescent(p)
    /\ pc' = [pc EXCEPT ![p] = "drain"]
    /\ UNCHANGED <<otherVars, startVars, handlerVars, parent, readyPipeFD, ln, serve, sigCh, inShutdown, exitReason,
                   loggedAc, attemptVars, trackVars, connVars, cw,
                   shutdownSet, sigsSent, sent, prevState>>

\* ------------------------------------------------- waitForDrainAndExit
\* DrainPoll without the deadline test: only a count of 0 ends the loop.
DrainPollNoDeadline(p) ==
    /\ pc[p] = "drain"
    /\ activeConns[p] = 0
    /\ Exit(p, "drained", 0)
    /\ UNCHANGED <<otherVars, startVars, handlerVars, parent, readyPipeFD, inShutdown, outcome, owner,
                   shutdownSet, sigsSent, sent, prevState>>

\* DrainPoll with the deadline branch ending in a fatal exit (status 1).
DrainPollForcedFatal(p) ==
    /\ pc[p] = "drain"
    /\ \E late \in BOOLEAN :
        LET ac == activeConns[p] IN
        /\ ac = 0 \/ late
        /\ IF ac = 0 THEN Exit(p, "drained", 0) ELSE Exit(p, "fatal", ac)
    /\ UNCHANGED <<otherVars, startVars, handlerVars, parent, readyPipeFD, inShutdown, outcome,
                   owner, shutdownSet, sigsSent, sent, prevState>>

\* DrainPoll taking the clean exit at a count of one as well.
DrainPollOffByOne(p) ==
    /\ pc[p] = "drain"
    /\ \E late \in BOOLEAN :
        LET ac == activeConns[p] IN
        /\ ac <= 1 \/ late
        /\ IF ac <= 1 THEN Exit(p, "drained", 0) ELSE Exit(p, "forced", ac)
    /\ UNCHANGED <<otherVars, startVars, handlerVars, parent, readyPipeFD, inShutdown, outcome, owner,
                   shutdownSet, sigsSent, sent, prevState>>

\* One round of the loop that ends it: atomic.LoadInt64(&activeConns) reads
\* 0 and the process exits, or the 60 s deadline has passed and the process
\* exits logging the count it read.  (A round that sleeps changes nothing.)
DrainPoll(p) ==
    /\ pc[p] = "drain"
    /\ \E late \in BOOLEAN :
        LET ac == activeConns[p] IN
        /\ ac = 0 \/ late
        /\ IF ac = 0 THEN Exit(p, "drained", 0) ELSE Exit(p, "forced", ac)
    /\ UNCHANGED <<otherVars, startVars, handlerVars, parent, readyPipeFD, inShutdown, outcome, owner,
                   shutdownSet, sigsSent, sent, prevState>>

\* ------------------------------------------------------- specification
Next ==
    \/ \E p \in Procs : StartFresh(p)
    \/ \E p \in Procs : StartFreshFail(p)
    \/ \E p \in Procs : StartInherited(p)
    \/ \E p \in Procs : StartInheritedFail(p)
    \/ \E p \in Procs : WriteReady(p)
    \/ \E p \in Procs, s \in Signals : Deliver(p, s)
    \/ \E p \in Procs : RecvSighup(p)
    \/ \E p \in Procs : RecvSigterm(p)
    \/ \E p \in Procs : RecvServeErr(p)
    \/ \E p \in Procs : AttemptFileErr(p)
    \/ \E p \in Procs : AttemptPipeErr(p)
    \/ \E p \in Procs : AttemptStartOk(p)
    \/ \E p \in Procs : AttemptStartErr(p)
    \/ \E p \in Procs : ReaderRead(p)
    \/ \E p \in Procs : AwaitReady(p)
    \/ \E p \in Procs : AwaitTimeout(p)
    \/ \E p \in Procs, c \in Conns : Accept(p, c)
    \/ \E c \in Conns, st \in ConnStates : ConnStep(c, st)
    \/ \E p \in Procs : ShutdownBegin(p)
    \/ \E p \in Procs : ShutdownReturn(p)
    \/ \E p \in Procs : DrainPoll(p)

Spec == Init /\ [][Next]_vars

\* The steps of p's coordinator: func main's dispatch loop and the functions
\* it calls.
Coordinator(p) ==
    \/ RecvSighup(p) \/ RecvSigterm(p) \/ RecvServeErr(p)
    \/ AttemptFileErr(p) \/ AttemptPipeErr(p)
    \/ AttemptStartOk(p) \/ AttemptStartErr(p)
    \/ AwaitReady(p) \/ AwaitTimeout(p)
    \/ ShutdownBegin(p) \/ ShutdownReturn(p)
    \/ DrainPoll(p)

\* The coordinator goroutine is scheduled: a select with a ready case, a
\* timer (time.After, the Shutdown context, the drain deadline) and a call
\* that can return do not wait for ever.  Nothing is assumed of connections,
\* of the environment's signals or of a successor's progress.
SpecLive == Spec /\ \A p \in Procs : WF_vars(Coordinator(p))

\* -------------------------------------------- Serve ending on its own
\* srv.Serve returns because Accept failed with an error that is not
\* temporary, while the listener is open; the goroutine sends the error to
\* serveErr.  The listener stays open, with no accept loop on it.
ServeAcceptError(p) ==
    /\ Accepting(p)
    /\ serve' = [serve EXCEPT ![p] = "returned"]
    /\ UNCHANGED <<otherVars, startVars, handlerVars, pc, parent, readyPipeFD, ln, sigCh,
                   inShutdown, exitReason, loggedAc, attemptVars, trackVars,
                   connVars, cw, shutdownSet, sigsSent, sent, prevState>>

NextServe ==
    \/ Next
    \/ \E p \in Procs : ServeAcceptError(p)

\* The program with accept errors.  The main goroutine is scheduled once
\* Serve has been started: the write of the six bytes of the sentinel does
\* not block (it succeeds or fails at once), and the coordinator runs as in
\* SpecLive.
SpecServe ==
    /\ Init /\ [][NextServe]_vars
    /\ \A p \in Procs : WF_vars(WriteReady(p)) /\ WF_vars(Coordinator(p))

\* ---------------------------------------- the tracker under any notifications
NTrack == 2                  \* connections of the tracker specification
TrackConns == 1..NTrack

\* Process 1 is serving and has accepted the connections of TrackConns.
InitTracker ==
    /\ pc          = [p \in Procs |-> IF p = 1 THEN "select" ELSE "unborn"]
    /\ parent      = [p \in Procs |-> NoProc]
    /\ readyPipeFD = [p \in Procs |-> 0]
    /\ ln          = [p \in Procs |-> IF p = 1 THEN "open" ELSE "none"]
    /\ serve       = [p \in Procs |-> IF p = 1 THEN "running" ELSE "off"]
    /\ sigCh       = [p \in Procs |-> <<>>]
    /\ inShutdown  = [p \in Procs |-> FALSE]
    /\ exitReason  = [p \in Procs |-> "none"]
    /\ loggedAc    = [p \in Procs |-> 0]
    /\ activeConns = [p \in Procs |-> 0]
    /\ seen        = [p \in Procs |-> {}]
    /\ mu          = [p \in Procs |-> NoConn]
    /\ outcome     = [p \in Procs |-> "none"]
    /\ child       = [p \in Procs |-> NoProc]
    /\ lf          = [p \in Procs |-> "none"]
    /\ pr          = [p \in Procs |-> "none"]
    /\ pw          = [p \in Procs |-> "none"]
    /\ rd          = [p \in Procs |-> "none"]
    /\ line        = [p \in Procs |-> NoLine]
    /\ pipeBuf     = [p \in Procs |-> FALSE]
    /\ cw          = [p \in Procs |-> "none"]
    /\ shutdownSet = [p \in Procs |-> {}]
    /\ owner       = [c \in TrackConns |-> 1]
    /\ connState   = [c \in TrackConns |-> StateNew]
    /\ prevState   = [c \in TrackConns |-> "none"]
    /\ cb          = [c \in TrackConns |-> 0]
    /\ sigsSent    = 0
    /\ sent        = [p \in Procs |-> 0]
    /\ gracefulRestart = [p \in Procs |-> ""]
    /\ acquired    = [p \in Procs |-> IF p = 1 THEN "bind" ELSE "none"]
    /\ slowEveryN  = 3
    /\ reqSeq      = 0
    /\ hpc         = [r \in Reqs |-> "idle"]
    /\ id          = [r \in Reqs |-> 0]
    /\ slow        = [r \in Reqs |-> FALSE]
    /\ resp        = [r \in Reqs |-> 0]
    /\ OthersNotStarted

\* The ConnState hook is called for c with an arbitrary state.
Notify(c, st) ==
    /\ cb[c] = 0
    /\ OnState(c, st)
    /\ prevState' = [prevState EXCEPT ![c] = connState[c]]
    /\ UNCHANGED <<otherVars, startVars, handlerVars, procVars, sigCh, attemptVars, activeConns, owner, cw,
                   shutdownSet, sigsSent, sent>>

NextTracker ==
    \/ \E c \in TrackConns, st \in ConnStates : Notify(c, st)
    \/ \E c \in TrackConns : OnStateAdd(c)

SpecTracker == InitTracker /\ [][NextTracker]_vars

\* ------------------------------------------------- the request handler
\* Values of SLOW_EVERY_N: getenvInt accepts any integer, the default is 3.
SlowChoices == {-1, 0, 1, 2, 3}

\* Process 1 is serving; SLOW_EVERY_N was read at startup, no request has
\* arrived.
InitHandler ==
    /\ pc          = [p \in Procs |-> IF p = 1 THEN "select" ELSE "unborn"]
    /\ parent      = [p \in Procs |-> NoProc]
    /\ readyPipeFD = [p \in Procs |-> 0]
    /\ ln          = [p \in Procs |-> IF p = 1 THEN "open" ELSE "none"]
    /\ serve       = [p \in Procs |-> IF p = 1 THEN "running" ELSE "off"]
    /\ sigCh       = [p \in Procs |-> <<>>]
    /\ inShutdown  = [p \in Procs |-> FALSE]
    /\ exitReason  = [p \in Procs |-> "none"]
    /\ loggedAc    = [p \in Procs |-> 0]
    /\ activeConns = [p \in Procs |-> 0]
    /\ seen        = [p \in Procs |-> {}]
    /\ mu          = [p \in Procs |-> NoConn]
    /\ outcome     = [p \in Procs |-> "none"]
    /\ child       = [p \in Procs |-> NoProc]
    /\ lf          = [p \in Procs |-> "none"]
    /\ pr          = [p \in Procs |-> "none"]
    /\ pw          = [p \in Procs |-> "none"]
    /\ rd          = [p \in Procs |-> "none"]
    /\ line        = [p \in Procs |-> NoLine]
    /\ pipeBuf     = [p \in Procs |-> FALSE]
    /\ cw          = [p \in Procs |-> "none"]
    /\ shutdownSet = [p \in Procs |-> {}]
    /\ owner       = [c \in Conns |-> NoProc]
    /\ connState   = [c \in Conns |-> "none"]
    /\ prevState   = [c \in Conns |-> "none"]
    /\ cb          = [c \in Conns |-> 0]
    /\ sigsSent    = 0
    /\ sent        = [p \in Procs |-> 0]
    /\ gracefulRestart = [p \in Procs |-> ""]
    /\ acquired    = [p \in Procs |-> IF p = 1 THEN "bind" ELSE "none"]
    /\ slowEveryN  \in SlowChoices
    /\ reqSeq      = 0
    /\ hpc         = [r \in Reqs |-> "idle"]
    /\ id          = [r \in Reqs |-> 0]
    /\ slow        = [r \in Reqs |-> FALSE]
    /\ resp        = [r \in Reqs |-> 0]
    /\ OthersNotStarted

\* HandlerEnter with the counter read and written back in two operations:
\* the value stored may rest on a read that other handlers have overtaken.
HandlerEnterRacy(r) ==
    /\ hpc[r] = "idle"
    /\ \E old \in 0..reqSeq :
        /\ reqSeq' = old + 1
        /\ id' = [id EXCEPT ![r] = old + 1]
        /\ slow' = [slow EXCEPT ![r] =
                       slowEveryN > 0 /\ (old + 1) % slowEveryN = 0]
        /\ hpc' = [hpc EXCEPT ![r] =
                      IF slowEveryN > 0 /\ (old + 1) % slowEveryN = 0
                      THEN "slow" ELSE "respond"]
    /\ UNCHANGED <<otherVars, startVars, slowEveryN, resp, procVars, sigCh, attemptVars,
                   trackVars, connVars, cw, shutdownSet, sigsSent, sent, prevState>>

\* The handler of request r starts: id := atomic.AddUint64(&reqSeq, 1), slow
\* is computed from id, the request line is logged and the handler enters
\* the slow loop or goes on to the response.  (The counter is 64 bits wide;
\* the requests of one behaviour are far from wrapping it.)
HandlerEnter(r) ==
    /\ hpc[r] = "idle"
    /\ reqSeq' = reqSeq + 1
    /\ id' = [id EXCEPT ![r] = reqSeq + 1]
    /\ slow' = [slow EXCEPT ![r] =
                   slowEveryN > 0 /\ (reqSeq + 1) % slowEveryN = 0]
    /\ hpc' = [hpc EXCEPT ![r] =
                  IF slowEveryN > 0 /\ (reqSeq + 1) % slowEveryN = 0
                  THEN "slow" ELSE "respond"]
    /\ UNCHANGED <<otherVars, startVars, slowEveryN, resp, procVars, sigCh, attemptVars,
                   trackVars, connVars, cw, shutdownSet, sigsSent, sent, prevState>>

\* The slow loop ends: deadline.C fires, goto done.  (The heartbeats before
\* it only log.)
HandlerSlowDone(r) ==
    /\ hpc[r] = "slow"
    /\ hpc' = [hpc EXCEPT ![r] = "respond"]
    /\ UNCHANGED <<otherVars, startVars, slowEveryN, reqSeq, id, slow, resp, procVars, sigCh,
                   attemptVars, trackVars, connVars, cw, shutdownSet, sigsSent,
                   sent, prevState>>

\* done: fmt.Fprintf(w, "hello world from pid=%d req=%d\n", pid, id).
HandlerRespond(r) ==
    /\ hpc[r] = "respond"
    /\ resp' = [resp EXCEPT ![r] = id[r]]
    /\ hpc' = [hpc EXCEPT ![r] = "done"]
    /\ UNCHANGED <<otherVars, startVars, slowEveryN, reqSeq, id, slow, procVars, sigCh,
                   attemptVars, trackVars, connVars, cw, shutdownSet, sigsSent,
                   sent, prevState>>

NextHandler ==
    \/ \E r \in Reqs : HandlerEnter(r)
    \/ \E r \in Reqs : HandlerSlowDone(r)
    \/ \E r \in Reqs : HandlerRespond(r)

SpecHandler == InitHandler /\ [][NextHandler]_vars

TypeOK ==
    /\ \A p \in Procs : activeConns[p] \in Int
    /\ \A p \in Procs : Len(sigCh[p]) <= SigChCap

\* ================================================================ claims
\* The attempt's step that leaves the wait and closes p's open listener.
AttemptClosesListener(p) ==
    /\ pc[p] = "await" /\ pc'[p] # "await"
    /\ ln[p] = "open" /\ ln'[p] = "closed"

\* C1: in every restart attempt the predecessor closes its own listener only
\* after the reader has received the successor's readiness sentinel; the
\* listener is never closed in an attempt in which no sentinel was read.
C1_CloseOnlyAfterSentinel ==
    [][\A p \in Procs : AttemptClosesListener(p) => line[p] = Sentinel]_vars

\* C2: when the handshake pipe reaches end-of-file without a sentinel (the
\* successor exited before writing), the attempt ends as failed and leaves
\* the predecessor as it was: listener open, still serving, not draining.
C2_EofLeavesPredecessor ==
    [][\A p \in Procs :
          (/\ pc[p] = "await" /\ pc'[p] # "await"
           /\ rd[p] = "done" /\ line[p] = NoLine /\ ~pipeBuf[p])
          => (/\ ln'[p] = ln[p]
              /\ serve'[p] = serve[p]
              /\ outcome'[p] \notin {"ready"})]_vars

\* Process p has handled an Upgrade trigger.
UpgradeSeen(p) == pc[p] \in {"attempt", "await"} \/ outcome[p] # "none"

\* No process was told to shut down.
Undisturbed ==
    \A q \in Procs : ~inShutdown[q] /\ pc[q] # "shutdown"

\* C3: from the moment an Upgrade is triggered until the predecessor exits,
\* whatever the outcome of the attempt, some live process holds the listening
\* endpoint open and accepts on it.
C3_NoAcceptanceGap ==
    \A p \in Procs :
        (UpgradeSeen(p) /\ Alive(p) /\ Undisturbed)
        => \E q \in Procs : Accepting(q)

\* C4: when cmd.Start fails the attempt returns as failed without closing the
\* predecessor's listener, without stopping its Serve loop and without having
\* created a process; the predecessor is back in its dispatch loop.
C4_StartFailureIsolated ==
    [][\A p \in Procs :
          (pc[p] = "attempt" /\ outcome'[p] = "startErr")
          => (/\ ln'[p] = ln[p] /\ ln[p] = "open"
              /\ serve'[p] = serve[p]
              /\ pc'[p] = "select"
              /\ \A q \in Procs \ {p} : pc'[q] = pc[q])]_vars

\* C4 witness: a start failure happened and the predecessor is accepting.
C4_Witness ==
    \E p \in Procs : outcome[p] = "startErr" /\ pc[p] = "select" /\ Accepting(p)

\* C5: when the handshake timeout fires the attempt returns as timed out; the
\* predecessor's listener and Serve loop are untouched and the successor is
\* neither terminated nor signalled.
C5_TimeoutKeepsServing ==
    [][\A p \in Procs :
          (pc[p] = "await" /\ outcome'[p] = "timeout")
          => (/\ ln'[p] = ln[p]
              /\ serve'[p] = serve[p]
              /\ pc'[p] = "select"
              /\ pc'[child[p]] = pc[child[p]]
              /\ sigCh'[child[p]] = sigCh[child[p]]
              /\ exitReason'[child[p]] = exitReason[child[p]])]_vars

\* C5 witness: after a timeout the predecessor accepts and the successor it
\* spawned is still running.
C5_Witness ==
    \E p \in Procs :
        /\ outcome[p] = "timeout" /\ Accepting(p)
        /\ child[p] # NoProc /\ Alive(child[p])

\* The attempt of p has returned as timed out or failed.
Terminal(p) ==
    /\ outcome[p] \in {"timeout", "startErr", "pipeErr", "fileErr"}
    /\ pc[p] # "await"

\* C6: outcomes are terminal.  Once an attempt has ended as timed out or
\* failed, nothing that happens later to its pipe changes the outcome or
\* closes the predecessor's listener: the outcome changes only when a new
\* Upgrade is dispatched, and the listener is closed only by Shutdown or by
\* process exit.
C6_OutcomeTerminal ==
    [][\A p \in Procs :
          Terminal(p)
          => (/\ outcome'[p] # outcome[p] => (pc[p] = "select" /\ pc'[p] = "attempt")
              /\ (ln[p] = "open" /\ ln'[p] = "closed")
                 => (pc[p] = "shutdown" \/ pc'[p] = "exited"))]_vars

\* C6 witness: the attempt timed out, its successor wrote (or tried to write)
\* the sentinel, and the predecessor still accepts.
C6_Witness ==
    \E p \in Procs :
        /\ outcome[p] = "timeout" /\ pc[p] = "select" /\ Accepting(p)
        /\ child[p] # NoProc /\ Alive(child[p]) /\ cw[child[p]] = "closed"

\* C7 as claimed: at every observation, also one made while a callback is
\* running, the counter is >= 0 and equals the size of the membership set.
C7_CountEqualsSetAlways ==
    \A p \in Procs :
        Alive(p) => (activeConns[p] >= 0 /\ activeConns[p] = Cardinality(seen[p]))

\* C7 amended: the counter is >= 0 at every observation, and it equals the
\* size of the membership set at every observation made while no onState
\* callback holds the tracker's mutex.
C7_CountEqualsSetUnlocked ==
    \A p \in Procs :
        Alive(p) => /\ activeConns[p] >= 0
                    /\ mu[p] = NoConn => activeConns[p] = Cardinality(seen[p])

\* C7 witness: no callback is running, a connection is counted and another
\* one has been counted and uncounted.
C7_Witness ==
    /\ mu[1] = NoConn
    /\ activeConns[1] = 1 /\ Cardinality(seen[1]) = 1
    /\ \E c \in DOMAIN connState : connState[c] = StateIdle

\* C8: under any sequence of notifications a connection contributes at most
\* 1 to the counter: with no callback running, the counter is at least the
\* number of connections last reported Active and at most the number of
\* connections not reported Idle, Hijacked or Closed since.
C8_AtMostOnePerConn ==
    mu[1] = NoConn =>
        LET act  == {c \in DOMAIN connState : connState[c] = StateActive}
            live == {c \in DOMAIN connState :
                        connState[c] \in {StateNew, StateActive}}
        IN  /\ Cardinality(act) <= activeConns[1]
            /\ activeConns[1] <= Cardinality(live)

\* C8 witness: a connection was reported Active twice in a row, another one
\* Closed twice in a row, and the counter is 1.
C8_Witness ==
    /\ mu[1] = NoConn
    /\ activeConns[1] = 1
    /\ \E c \in DOMAIN connState :
          prevState[c] = StateActive /\ connState[c] = StateActive
    /\ \E c \in DOMAIN connState :
          prevState[c] = StateClosed /\ connState[c] = StateClosed

\* C9: a process that was told to shut down takes the clean exit only when
\* every connection that was counted when the trigger was handled has
\* finished its work (reported Idle or Closed).
C9_DrainBeforeExit ==
    [][\A p \in Procs :
          (inShutdown[p] /\ pc'[p] = "exited" /\ exitReason'[p] = "drained")
          => \A c \in shutdownSet[p] :
                 connState[c] \in {StateIdle, StateClosed}]_vars

\* C9 witness: a clean exit after a Shutdown that found a counted connection.
C9_Witness ==
    \E p \in Procs :
        inShutdown[p] /\ exitReason[p] = "drained" /\ shutdownSet[p] # {}

\* C10: once a Shutdown has started, a further trigger changes nothing but
\* the signal queue: the coordinator never leaves the shutdown sequence to
\* dispatch it, the listener stays closed, the set being drained is not
\* taken again and the process exits once.
C10_ShutdownIdempotent ==
    [][\A p \in Procs :
          /\ pc[p] = "shutdown_wait" => pc'[p] \in {"shutdown_wait", "drain"}
          /\ pc[p] = "drain" => pc'[p] \in {"drain", "exited"}
          /\ pc[p] = "exited" => pc'[p] = "exited"
          /\ inShutdown[p] => /\ inShutdown'[p]
                              /\ shutdownSet'[p] = shutdownSet[p]
                              /\ ln'[p] = "closed"]_vars

\* C10 witness: a second Shutdown trigger is queued at a process that is
\* draining after the first.
C10_Witness ==
    \E p \in Procs :
        /\ inShutdown[p] /\ pc[p] = "drain"
        /\ sigCh[p] # <<>> /\ Head(sigCh[p]) = SIGTERM

\* C11: draining always terminates.  Once waitForDrainAndExit has started
\* the process eventually exits, whatever its connections do; and an exit
\* forced by the deadline happens with k > 0 connections counted and logs
\* that k.
C11_DrainTerminates ==
    /\ \A p \in Procs : (pc[p] = "drain") ~> (pc[p] = "exited")
    /\ [][\A p \in Procs :
            (pc[p] = "drain" /\ exitReason'[p] = "forced")
            => (/\ pc'[p] = "exited"
                /\ activeConns[p] > 0
                /\ loggedAc'[p] = activeConns[p])]_vars

\* C11 witness: a process was forced out by the deadline and logged the
\* connection that never finished.
C11_Witness ==
    \E p \in Procs :
        /\ pc[p] = "exited" /\ exitReason[p] = "forced" /\ loggedAc[p] >= 1
        /\ \E c \in Conns : owner[c] = p

\* C12: at most one restart attempt per process is live.  An attempt starts
\* only from the dispatch loop, when no read end and no reader of an earlier
\* attempt is left, and while an attempt is in progress the triggers that
\* arrive stay queued in sigCh.
C12_OneLiveAttempt ==
    [][\A p \in Procs :
          /\ (pc'[p] = "attempt" /\ pc[p] # "attempt")
             => (pc[p] = "select" /\ pr[p] # "open" /\ rd[p] # "reading")
          /\ pc[p] \in {"attempt", "await"}
             => (\/ sigCh'[p] = sigCh[p]
                 \/ \E sg \in Signals : sigCh'[p] = Append(sigCh[p], sg))]_vars

\* C12 witness: an Upgrade trigger is queued at a process whose attempt is
\* waiting for its successor.
C12_Witness ==
    \E p \in Procs :
        /\ pc[p] = "await" /\ rd[p] = "reading"
        /\ sigCh[p] # <<>> /\ Head(sigCh[p]) = SIGHUP

\* The processes that accept on the endpoint among p and the successors it
\* spawned.
AcceptorsOf(p) == {q \in Procs : Accepting(q) /\ (q = p \/ parent[q] = p)}

\* C13: after a handoff has completed (the attempt of p ended ready) the
\* listener of p is closed, p does not accept, and at most one process
\* accepts on the endpoint.
C13_OneAcceptorAfterHandoff ==
    \A p \in Procs :
        outcome[p] = "ready"
        => (/\ ln[p] = "closed"
            /\ ~Accepting(p)
            /\ Cardinality(AcceptorsOf(p)) <= 1)

\* C14: a successor writes the sentinel exactly once, and only when it has
\* rebuilt its listener from the inherited descriptor and serves on it; a
\* process started fresh never writes.
C14_SentinelOnce ==
    /\ [](\A q \in Procs :
            /\ sent[q] <= 1
            /\ parent[q] = NoProc => (sent[q] = 0 /\ pc[q] # "notify")
            /\ (/\ parent[q] # NoProc
                /\ pc[q] \notin {"unborn", "start", "notify"}
                /\ exitReason[q] # "fatal") => sent[q] = 1)
    /\ [][\A q \in Procs :
            sent'[q] # sent[q]
            => (/\ parent[q] # NoProc /\ readyPipeFD[q] = ReadyPipeFDNum
                /\ ln[q] = "open" /\ serve[q] = "running"
                /\ sent[q] = 0)]_vars

\* C14 witness: a successor has written its sentinel and is in its dispatch
\* loop, the freshly started process that spawned it has written nothing.
C14_Witness ==
    \E q \in Procs :
        /\ parent[q] # NoProc /\ pc[q] = "select" /\ sent[q] = 1
        /\ Alive(parent[q]) /\ parent[parent[q]] = NoProc /\ sent[parent[q]] = 0

\* C15: work in progress on the predecessor is not interrupted by the
\* handoff.  A connection that is Active stays with the process that accepted
\* it (whose identity its response carries), and its state changes only by
\* its own goroutine reporting the end of the request or of the connection,
\* or by the exit that the drain deadline forces; no other step of a
\* coordinator, the handoff's and the clean exit included, touches it.
C15_InProgressNotInterrupted ==
    [][\A c \in Conns :
          (owner[c] # NoProc /\ connState[c] = StateActive)
          => (/\ owner'[c] = owner[c]
              /\ connState'[c] # StateActive
                 => (\/ /\ pc'[owner[c]] = pc[owner[c]]
                        /\ connState'[c] \in {StateIdle, StateClosed}
                     \/ /\ pc[owner[c]] = "drain"
                        /\ pc'[owner[c]] = "exited"
                        /\ exitReason'[owner[c]] = "forced"))]_vars

\* C15 witness: the predecessor drains after a completed handoff with a
\* request still in progress, while its successor accepts.
C15_Witness ==
    \E p \in Procs, c \in Conns :
        /\ outcome[p] = "ready" /\ pc[p] = "drain"
        /\ owner[c] = p /\ connState[c] = StateActive /\ activeConns[p] = 1
        /\ child[p] # NoProc /\ Accepting(child[p])

\* Process a is q or a successor of q, of any generation.
RECURSIVE Descends(_, _)
Descends(a, q) ==
    \/ a = q
    \/ parent[a] # NoProc /\ Descends(parent[a], q)

\* C16: after a successful handshake, as long as the predecessor lives, every
\* connection that is accepted is accepted by the successor of that handoff
\* (or by a successor of it), never by the predecessor.
C16_NewWorkOnSuccessor ==
    [][\A c \in Conns, p \in Procs :
          (/\ owner[c] = NoProc /\ owner'[c] # NoProc
           /\ Alive(p) /\ outcome[p] = "ready")
          => (/\ owner'[c] # p
              /\ child[p] # NoProc
              /\ Descends(owner'[c], child[p]))]_vars

\* C17: after a successful handshake the predecessor does not accept any
\* more, and from the ready outcome it always reaches process exit, by the
\* clean exit at a count of 0 or by the exit forced at the drain deadline.
C17_ReadyLeadsToExit ==
    /\ [](\A p \in Procs : outcome[p] = "ready" => ~Accepting(p))
    /\ \A p \in Procs :
          (outcome[p] = "ready" /\ Alive(p))
          ~> (pc[p] = "exited" /\ exitReason[p] \in {"drained", "forced"})

\* C17 witness: the predecessor of a completed handoff has exited and the
\* successor it handed over to accepts.
C17_Witness ==
    \E p \in Procs :
        /\ outcome[p] = "ready" /\ pc[p] = "exited"
        /\ \E q \in Procs : parent[q] = p /\ sent[q] = 1 /\ Accepting(q)

\* C18: while the attempt spawns and waits, the predecessor's own listener
\* stays as it was and the predecessor keeps accepting: no step of the
\* attempt short of the handoff itself (File(), os.Pipe(), cmd.Start(), the
\* Close of lf and of w, the reader, the timeout) changes the listener or the
\* Serve loop, and a predecessor that waits for its successor is accepting.
C18_ListenerValidDuringAttempt ==
    /\ [](\A p \in Procs : pc[p] = "await" => Accepting(p))
    /\ [][\A p \in Procs :
            (pc[p] \in {"attempt", "await"} /\ outcome'[p] # "ready")
            => (ln'[p] = ln[p] /\ serve'[p] = serve[p])]_vars

\* C18 witness: the predecessor has closed its duplicate, waits for the
\* successor that holds the other copy, and has accepted a connection.
C18_Witness ==
    \E p \in Procs, c \in Conns :
        /\ pc[p] = "await" /\ lf[p] = "closed" /\ Accepting(p)
        /\ child[p] # NoProc /\ ln[child[p]] \in {"inherited", "open"}
        /\ owner[c] = p /\ connState[c] = StateNew

\* A step of p's restart attempt: the dispatch of the Upgrade, a step of
\* attemptGracefulRestart or of its reader goroutine.
AttemptStep(p) ==
    \/ pc[p] = "select" /\ pc'[p] = "attempt"
    \/ pc[p] \in {"attempt", "await"} /\ pc'[p] # pc[p]
    \/ pc[p] = "await" /\ rd[p] = "reading" /\ rd'[p] = "done"

\* The attempt of p ends ready with this step: the sentinel was read and
\* the select takes the ready case.
EndsReady(p) ==
    /\ pc[p] = "await" /\ pc'[p] # "await"
    /\ rd[p] = "done" /\ line[p] = Sentinel /\ outcome'[p] = "ready"

\* C19: a restart attempt that does not end ready (no sentinel was received)
\* leaves the serving path as it was: none of its steps changes the
\* listener, the Serve loop, the counter, the membership set or a connection.
C19_FailedAttemptFrame ==
    [][\A p \in Procs :
          (AttemptStep(p) /\ ~EndsReady(p))
          => (/\ ln'[p] = ln[p] /\ serve'[p] = serve[p]
              /\ inShutdown'[p] = inShutdown[p]
              /\ activeConns'[p] = activeConns[p] /\ seen'[p] = seen[p]
              /\ owner' = owner /\ connState' = connState)]_vars

\* C20: a Shutdown trigger launches no successor and creates no handshake
\* channel.  Taking SIGTERM from sigCh leads to shutdownAndExit, and no step
\* of a process that is shutting down opens a pipe end or a duplicate of the
\* listener, or starts a process.
C20_ShutdownSpawnsNothing ==
    [][\A p \in Procs :
          /\ (/\ pc[p] = "select" /\ sigCh[p] # <<>>
              /\ Head(sigCh[p]) = SIGTERM /\ sigCh'[p] = Tail(sigCh[p]))
             => pc'[p] = "shutdown"
          /\ (pc[p] \in {"shutdown", "shutdown_wait", "drain"} \/ pc'[p] = "shutdown")
             => (/\ pc'[p] \in {"shutdown", "shutdown_wait", "drain", "exited"}
                 /\ child'[p] \in {child[p], NoProc}
                 /\ pr'[p] \in {pr[p], "none"}
                 /\ pw'[p] \in {pw[p], "none"}
                 /\ lf'[p] \in {lf[p], "none"}
                 /\ \A q \in Procs : parent'[q] = p => parent[q] = p)]_vars

\* C20 witness: a process that never spawned a successor has handled a
\* Shutdown trigger and exited.
C20_Witness ==
    \E p \in Procs :
        /\ inShutdown[p] /\ pc[p] = "exited" /\ outcome[p] = "none"
        /\ \A q \in Procs : parent[q] # p

\* C21: the wait for readiness is bounded.  Every call of
\* attemptGracefulRestart returns to the dispatch loop, whatever the
\* successor does (writes the sentinel, stays silent, exits, or cannot be
\* started); the process does not exit and does not start a shutdown from
\* inside the call.
C21_AttemptReturns ==
    /\ \A p \in Procs : (pc[p] \in {"attempt", "await"}) ~> (pc[p] = "select")
    /\ [][\A p \in Procs :
            pc[p] \in {"attempt", "await"}
            => pc'[p] \in {"attempt", "await", "select"}]_vars

\* C21 witness: the attempt has returned to the dispatch loop although its
\* successor never got as far as writing the sentinel and is still running.
C21_Witness ==
    \E p \in Procs :
        /\ pc[p] = "select" /\ outcome[p] = "timeout"
        /\ child[p] # NoProc /\ pc[child[p]] = "start" /\ sent[child[p]] = 0

\* C22 as claimed: the exit code is 0 exactly on the clean drain-complete
\* exit, and a nonzero exit code occurs only for the bind failure of a
\* freshly started process.
C22_ZeroOnlyWhenDrained ==
    \A p \in Procs :
        pc[p] = "exited"
        => (/\ ExitCode(p) = 0 <=> exitReason[p] = "drained"
            /\ ExitCode(p) # 0 => parent[p] = NoProc)

\* C22 amended: the exit code is 0 exactly on the exits of
\* waitForDrainAndExit, the clean one and the one forced by the deadline,
\* and nonzero exactly when the process could not get its listener at
\* startup, by a fresh bind or from the inherited descriptor.
C22_ExitCodes ==
    [][\A p \in Procs :
          (pc[p] # "exited" /\ pc'[p] = "exited")
          => (/\ ExitCode(p)' = 0 <=> pc[p] = "drain"
              /\ ExitCode(p)' # 0 <=> (pc[p] = "start" /\ acquired[p] = "none")
              /\ ExitCode(p)' \in {0, 1})]_vars

\* C22 witness: a successor has died at startup with a nonzero code and its
\* predecessor was forced out by the drain deadline with code 0.
C22_Witness ==
    \E p, q \in Procs :
        /\ parent[q] = p
        /\ pc[q] = "exited" /\ exitReason[q] = "fatal" /\ ExitCode(q) = 1
        /\ pc[p] = "exited" /\ exitReason[p] = "forced" /\ ExitCode(p) = 0

\* Process p takes the trigger at the head of sigCh with this step.
TakesTrigger(p) ==
    /\ sigCh[p] # <<>> /\ sigCh'[p] = Tail(sigCh[p])
    /\ pc'[p] # "exited"

\* The coordinator of p is handling a trigger or Serve's return.
Handling(p) ==
    pc[p] \in {"attempt", "await", "shutdown", "shutdown_wait", "drain"}

\* C23: the coordinator handles triggers one at a time.  A trigger is taken
\* from sigCh only by the select of the dispatch loop, never while another
\* one is being handled, and it is the oldest one; a Shutdown starts only
\* from the dispatch loop, so after an attempt that spawned has returned with
\* an outcome and has given up its read end and its reader.
C23_OneTriggerAtATime ==
    [][\A p \in Procs :
          /\ TakesTrigger(p)
             => (/\ pc[p] = "select" /\ ~Handling(p)
                 /\ pc'[p] = (IF Head(sigCh[p]) = SIGHUP THEN "attempt"
                                                          ELSE "shutdown"))
          /\ Handling(p) => ~TakesTrigger(p)
          /\ (pc'[p] = "shutdown" /\ pc[p] # "shutdown")
             => (/\ pc[p] = "select"
                 /\ pr[p] # "open" /\ rd[p] # "reading"
                 /\ child[p] # NoProc => outcome[p] # "none")]_vars

\* C23 witness: a Shutdown trigger that arrived while the attempt was waiting
\* is acted on after the attempt timed out; the successor is still starting.
C23_Witness ==
    \E p \in Procs :
        /\ pc[p] = "shutdown" /\ outcome[p] = "timeout"
        /\ child[p] # NoProc /\ pc[child[p]] = "start"

\* C24: listener acquisition is decided by the restart marker alone.  A
\* process started with GRACEFUL_RESTART=1 gets its listener only from the
\* inherited descriptor and never binds; when the reconstruction fails (also
\* because no listening descriptor was passed) it exits fatally.  A process
\* without the marker binds, and exits fatally when the bind fails.
C24_MarkerDecidesAcquisition ==
    [][\A p \in Procs :
          (pc[p] = "start" /\ pc'[p] # "start")
          => IF gracefulRestart[p] = "1"
             THEN \/ /\ ln[p] = "inherited" /\ ln'[p] = "open"
                     /\ acquired'[p] = "file"
                  \/ /\ pc'[p] = "exited" /\ exitReason'[p] = "fatal"
                     /\ acquired'[p] = "none"
             ELSE \/ /\ ln[p] = "none" /\ ln'[p] = "open"
                     /\ acquired'[p] = "bind"
                  \/ /\ pc'[p] = "exited" /\ exitReason'[p] = "fatal"
                     /\ acquired'[p] = "none"]_vars

\* C24 witness: a process that bound :8080 has handed over to a successor
\* that rebuilt the listener from the descriptor it inherited.
C24_Witness ==
    \E p, q \in Procs :
        /\ parent[q] = p /\ acquired[p] = "bind" /\ acquired[q] = "file"
        /\ Accepting(q) /\ outcome[p] = "ready"

\* C25: handoff is repeatable across generations.  A successor that has
\* taken over has no restart marker left, and its restart attempt follows
\* the rules of a freshly started process: the spawn gives the new process
\* the listener descriptor, the write end of a new pipe and the markers, and
\* leaves the spawner's listener open; the ready case needs the closed
\* readyCh and closes the listener; the timeout leaves it as it was.
C25_HandoffRepeats ==
    [][\A p \in Procs :
          parent[p] # NoProc
          => (/\ (pc[p] = "select" /\ pc'[p] = "attempt")
                 => (gracefulRestart[p] = "" /\ acquired[p] = "file")
              /\ (pc[p] = "attempt" /\ pc'[p] = "await")
                 => (/\ child'[p] # NoProc
                     /\ pc[child'[p]] = "unborn" /\ pc'[child'[p]] = "start"
                     /\ parent'[child'[p]] = p
                     /\ ln'[child'[p]] = "inherited"
                     /\ cw'[child'[p]] = "open"
                     /\ gracefulRestart'[child'[p]] = "1"
                     /\ readyPipeFD'[child'[p]] = ReadyPipeFDNum
                     /\ ln[p] = "open" /\ ln'[p] = "open"
                     /\ pr'[p] = "open" /\ rd'[p] = "reading")
              /\ (pc[p] = "await" /\ pc'[p] = "select")
                 => (\/ /\ outcome'[p] = "ready" /\ rd[p] = "done"
                        /\ ln'[p] = "closed"
                     \/ /\ outcome'[p] = "timeout" /\ ln'[p] = ln[p]))]_vars

\* C25 witness: a successor has itself handed over: the process it spawned
\* wrote the sentinel and accepts, and the successor's listener is closed.
C25_Witness ==
    \E p, q \in Procs :
        /\ parent[p] # NoProc /\ parent[q] = p
        /\ outcome[p] = "ready" /\ ln[p] = "closed"
        /\ sent[q] = 1 /\ Accepting(q)

\* C26: whenever http.Serve has returned, for whatever reason (the listener
\* was closed by the handoff or by Shutdown, or Accept failed), the process
\* exits: the dispatch loop that takes Serve's error goes to
\* waitForDrainAndExit, and no process stays alive without its Serve loop.
C26_ServeReturnLeadsToExit ==
    /\ \A p \in Procs :
          (serve[p] \in {"returned", "taken"}) ~> (pc[p] = "exited")
    /\ [][\A p \in Procs :
            (serve[p] = "returned" /\ serve'[p] = "taken") => pc'[p] = "drain"]_vars

\* C26 witness: a process is in waitForDrainAndExit with its listener still
\* open and without a Shutdown: its Serve loop ended on an accept error.
C26_Witness ==
    \E p \in Procs :
        /\ pc[p] = "drain" /\ serve[p] = "taken"
        /\ ln[p] = "open" /\ ~inShutdown[p]

\* The requests whose handler has taken its id.
Started == {r \in Reqs : hpc[r] # "idle"}

\* C27: request ids are assigned atomically.  Under any interleaving the
\* requests of a process have distinct ids, the ids are handed out in
\* increasing order from 1 without gaps, the response carries the id taken
\* at arrival, and a request takes the slow path exactly when
\* SLOW_EVERY_N > 0 and its id is a multiple of SLOW_EVERY_N.
C27_RequestIds ==
    /\ [](/\ \A r, s \in Started : r # s => id[r] # id[s]
          /\ {id[r] : r \in Started} = 1..reqSeq
          /\ \A r \in Reqs : hpc[r] = "done" => resp[r] = id[r]
          /\ \A r \in Started :
                slow[r] <=> (slowEveryN > 0 /\ id[r] % slowEveryN = 0))
    /\ [][\A r \in Reqs :
            /\ (hpc[r] = "idle" /\ hpc'[r] # "idle")
               => (/\ \A s \in Started : id[s] < id'[r]
                   /\ hpc'[r] = (IF slow'[r] THEN "slow" ELSE "respond"))
            /\ hpc'[r] = "slow" => slow'[r]
            /\ hpc[r] # "idle" => id'[r] = id[r]]_vars

\* C27 witness: three requests were answered, they took their ids in another
\* order than they were answered in, and with SLOW_EVERY_N = 2 the one with
\* id 2, and no other, was slow.
C27_Witness ==
    /\ slowEveryN = 2 /\ reqSeq = 3
    /\ \A r \in 1..3 : hpc[r] = "done" /\ resp[r] = id[r]
    /\ id[1] = 3 /\ id[2] = 1 /\ id[3] = 2
    /\ slow[3] /\ ~slow[1] /\ ~slow[2]

\* C28: when attemptGracefulRestart returns, by any of its paths, the
\* predecessor holds no open copy of the duplicated listener descriptor, of
\* the write end or of the read end of that attempt: what the attempt
\* opened it has closed, and outside an attempt none of the three is open.
C28_NoDescriptorLeft ==
    /\ [](\A p \in Procs :
            pc[p] \notin {"attempt", "await"}
            => (lf[p] # "open" /\ pw[p] # "open" /\ pr[p] # "open"))
    /\ [][\A p \in Procs :
            (pc[p] \in {"attempt", "await"} /\ pc'[p] = "select")
            => (/\ outcome'[p] \in {"ready", "timeout", "startErr"}
                   => (lf'[p] = "closed" /\ pw'[p] = "closed" /\ pr'[p] = "closed")
                /\ outcome'[p] = "pipeErr"
                   => (lf'[p] = "closed" /\ pw'[p] = pw[p] /\ pr'[p] = pr[p])
                /\ outcome'[p] = "fileErr"
                   => (lf'[p] = lf[p] /\ pw'[p] = pw[p] /\ pr'[p] = pr[p])
                /\ outcome'[p] \in {"ready", "timeout", "startErr",
                                    "pipeErr", "fileErr"})]_vars

\* C28 witness: the attempt timed out and the predecessor has closed its
\* three descriptors, while the successor still holds its copies of the
\* listener and of the write end.
C28_Witness ==
    \E p \in Procs :
        /\ pc[p] = "select" /\ outcome[p] = "timeout"
        /\ lf[p] = "closed" /\ pw[p] = "closed" /\ pr[p] = "closed"
        /\ child[p] # NoProc /\ Alive(child[p])
        /\ cw[child[p]] = "open" /\ ln[child[p]] = "inherited"

\* The successors spawned by p that are alive and hold the endpoint, as the
\* descriptor they inherited or as the listener rebuilt from it.
HoldingSuccessors(p) ==
    {q \in Procs : parent[q] = p /\ Alive(q) /\ ln[q] \in {"inherited", "open"}}

\* C29: the endpoint is never held open at once by a predecessor and by two
\* or more of the successors it spawned.
C29_OneSuccessorHolds ==
    \A p \in Procs :
        (Alive(p) /\ ln[p] = "open") => Cardinality(HoldingSuccessors(p)) <= 1

\* C30: once the predecessor has closed its listener after a handshake, a
\* further Upgrade that it handles before it exits launches no successor:
\* the attempt fails at File() on the closed listener and returns to the
\* dispatch loop, having started no process and opened no pipe.
C30_NoSpawnAfterHandoff ==
    [][\A p \in Procs :
          (pc[p] = "attempt" /\ ln[p] = "closed" /\ pc'[p] # "attempt")
          => (/\ pc'[p] = "select" /\ outcome'[p] = "fileErr"
              /\ parent' = parent /\ child'[p] = child[p]
              /\ \A q \in Procs : pc[q] = "unborn" => pc'[q] = "unborn"
              /\ pr'[p] = pr[p] /\ pw'[p] = pw[p] /\ lf'[p] = lf[p]
              /\ ln'[p] = "closed")]_vars

\* C30 witness: after a handshake with a successor that wrote the sentinel
\* and accepts, the predecessor handled another Upgrade, which failed at
\* File(); no further process was started.
C30_Witness ==
    \E p \in Procs :
        /\ Alive(p) /\ ln[p] = "closed" /\ outcome[p] = "fileErr"
        /\ child[p] # NoProc /\ sent[child[p]] = 1 /\ Accepting(child[p])
        /\ Cardinality({q \in Procs : parent[q] = p}) = 1

\* C31: the clean-drain exit is taken only when no connection that the
\* process accepted has work pending: no connection of its own is still new
\* (accepted, request not yet read) or active when the process exits
\* reporting that all connections are drained.
C31_CleanExitCutsNothing ==
    [][\A p \in Procs :
          (pc[p] # "exited" /\ pc'[p] = "exited" /\ exitReason'[p] = "drained")
          => \A c \in Conns :
                 owner[c] = p => connState[c] \notin {StateNew, StateActive}]_vars

\* =====================================================================
\* The tableflip-based server (second program of src/unnamed/part_001)
\* =====================================================================
tfRest == <<serverVars, sd, px, pk, io>>

TfAlive == tf.code = -1

\* A handler that has been entered and has not written its response.
TfInFlight == {r \in TfReqs : tf.hpc[r] \notin {"idle", "done", "cut"}}

\* The process ends: the handlers in flight end with it, their locals gone.
TfCut(t) ==
    LET cut == {r \in TfReqs : t.hpc[r] \notin {"idle", "done"}}
    IN  [t EXCEPT !.hpc  = [r \in TfReqs |-> IF r \in cut THEN "cut" ELSE t.hpc[r]],
                  !.tmp  = [r \in TfReqs |-> IF r \in cut THEN 0 ELSE t.tmp[r]],
                  !.slow = [r \in TfReqs |-> IF r \in cut THEN FALSE ELSE t.slow[r]],
                  !.acc  = [r \in TfReqs |-> IF r \in cut THEN 0 ELSE t.acc[r]]]

\* upg, err := tableflip.New(...) returns an Upgrader.
TfNew ==
    /\ tf.pc = "new"
    /\ tf' = [tf EXCEPT !.pc = "listen", !.upg = TRUE]
    /\ UNCHANGED tfRest

\* tableflip.New returns an error: os.Exit(1).
TfNewFail ==
    /\ tf.pc = "new"
    /\ tf' = [tf EXCEPT !.pc = "exited", !.code = 1]
    /\ UNCHANGED tfRest

\* ln, err := upg.Listen("tcp", ":8080") returns a listener.
TfListen ==
    /\ tf.pc = "listen"
    /\ tf' = [tf EXCEPT !.pc = "serve", !.ln = "open"]
    /\ UNCHANGED tfRest

\* upg.Listen returns an error: os.Exit(1).
TfListenFail ==
    /\ tf.pc = "listen"
    /\ tf' = [tf EXCEPT !.pc = "exited", !.code = 1]
    /\ UNCHANGED tfRest

\* go func() { ... srv.Serve(ln) ... }()
TfGoServe ==
    /\ tf.pc = "serve"
    /\ tf' = [tf EXCEPT !.pc = "ready", !.serve = "spawned"]
    /\ UNCHANGED tfRest

\* The goroutine runs: srv.Serve(ln) enters its accept loop, or returns
\* http.ErrServerClosed at once when Shutdown was called before it ran.
TfServeRun ==
    /\ TfAlive
    /\ tf.serve = "spawned"
    /\ tf' = [tf EXCEPT !.serve = IF tf.shut THEN "returned" ELSE "running"]
    /\ UNCHANGED tfRest

\* upg.Ready() returns nil.
TfReady ==
    /\ tf.pc = "ready"
    /\ tf' = [tf EXCEPT !.pc = "wait", !.readied = TRUE]
    /\ UNCHANGED tfRest

\* upg.Ready() returns an error: os.Exit(1).
TfReadyFail ==
    /\ tf.pc = "ready"
    /\ tf' = TfCut([tf EXCEPT !.pc = "exited", !.code = 1])
    /\ UNCHANGED tfRest

\* The library closes the channel of upg.Exit(): an upgrade requested by the
\* SIGHUP goroutine has completed.  Upgrade() fails until Ready() has been
\* called, and upg.Stop() is only deferred, so the channel cannot close
\* before Ready() returned.
TfExitFires ==
    /\ TfAlive
    /\ tf.readied
    /\ ~tf.exitC
    /\ tf' = [tf EXCEPT !.exitC = TRUE]
    /\ UNCHANGED tfRest

\* TfWaitExit that does not wait for the channel.
TfWaitExitNoWait ==
    /\ tf.pc = "wait"
    /\ tf' = [tf EXCEPT !.pc = "shutdown"]
    /\ UNCHANGED tfRest

\* <-upg.Exit()
TfWaitExit ==
    /\ tf.pc = "wait"
    /\ tf.exitC
    /\ tf' = [tf EXCEPT !.pc = "shutdown"]
    /\ UNCHANGED tfRest

\* srv.Shutdown(ctx) is called: the listener is closed and Serve returns.
TfShutdown ==
    /\ tf.pc = "shutdown"
    /\ tf' = [tf EXCEPT !.pc = "draining", !.shut = TRUE, !.ln = "closed",
                        !.serve = IF tf.serve = "running" THEN "returned"
                                  ELSE tf.serve]
    /\ UNCHANGED tfRest

\* srv.Shutdown returns nil when no request is in flight, main returns and
\* the process ends with status 0.
TfShutdownReturn ==
    /\ tf.pc = "draining"
    /\ TfInFlight = {}
    /\ tf' = [tf EXCEPT !.pc = "done", !.code = 0]
    /\ UNCHANGED tfRest

\* The 60 s context expires with requests in flight: Shutdown returns the
\* context's error, main logs it and returns.
TfShutdownTimeout ==
    /\ tf.pc = "draining"
    /\ TfInFlight # {}
    /\ tf' = TfCut([tf EXCEPT !.pc = "done", !.code = 0])
    /\ UNCHANGED tfRest

\* net/http starts the handler of the next request in its own goroutine.
TfAccept(r) ==
    /\ TfAlive
    /\ tf.serve = "running"
    /\ tf.hpc[r] = "idle"
    /\ \A q \in TfReqs : q < r => tf.hpc[q] # "idle"
    /\ tf' = [tf EXCEPT !.hpc[r] = "load"]
    /\ UNCHANGED tfRest

\* count++ : the load of the unsynchronised variable ...
TfLoad(r) ==
    /\ TfAlive
    /\ tf.hpc[r] = "load"
    /\ tf' = [tf EXCEPT !.tmp[r] = tf.count, !.hpc[r] = "store"]
    /\ UNCHANGED tfRest

\* ... and the store of the incremented value.
TfStore(r) ==
    /\ TfAlive
    /\ tf.hpc[r] = "store"
    /\ tf' = [tf EXCEPT !.count = tf.tmp[r] + 1, !.tmp[r] = 0,
                        !.hpc[r] = "slowcalc"]
    /\ UNCHANGED tfRest

\* slow := count%3 == 0
TfSlowCalc(r) ==
    /\ TfAlive
    /\ tf.hpc[r] = "slowcalc"
    /\ tf' = [tf EXCEPT !.slow[r] = (tf.count % 3 = 0), !.hpc[r] = "log"]
    /\ UNCHANGED tfRest

\* logf("[%d] accepted req=%d ...", pid, count, ..., slow)
TfLogAccepted(r) ==
    /\ TfAlive
    /\ tf.hpc[r] = "log"
    /\ tf' = [tf EXCEPT !.acc[r] = tf.count,
                        !.hpc[r] = IF tf.slow[r] THEN "work" ELSE "respond"]
    /\ UNCHANGED tfRest

\* if slow { ten heartbeats, one second apart }
TfHeartbeats(r) ==
    /\ TfAlive
    /\ tf.hpc[r] = "work"
    /\ tf' = [tf EXCEPT !.hpc[r] = "respond"]
    /\ UNCHANGED tfRest

\* fmt.Fprintf(w, "hello world pid=%d req=%d slow=%v\n", pid, count, slow)
TfRespond(r) ==
    /\ TfAlive
    /\ tf.hpc[r] = "respond"
    /\ tf' = [tf EXCEPT !.rnum[r] = tf.count, !.rslow[r] = tf.slow[r],
                        !.hpc[r] = "done"]
    /\ UNCHANGED tfRest

InitTableflip == ServerNotStarted /\ OthersNotStarted

NextTableflip ==
    \/ TfNew
    \/ TfNewFail
    \/ TfListen
    \/ TfListenFail
    \/ TfGoServe
    \/ TfServeRun
    \/ TfReady
    \/ TfReadyFail
    \/ TfExitFires
    \/ TfWaitExit
    \/ TfShutdown
    \/ TfShutdownReturn
    \/ TfShutdownTimeout
    \/ \E r \in TfReqs :
          \/ TfAccept(r)
          \/ TfLoad(r)
          \/ TfStore(r)
          \/ TfSlowCalc(r)
          \/ TfLogAccepted(r)
          \/ TfHeartbeats(r)
          \/ TfRespond(r)

SpecTableflip == InitTableflip /\ [][NextTableflip]_vars

\* C32: the lifecycle of the tableflip server is ordered.  Ready() is called
\* only with the listener obtained and the serve goroutine started;
\* Server.Shutdown is called only after the channel of Exit() closed; a
\* process leaves New, Listen or Ready by a failure only with exit status 1
\* and without readiness signalled, and status 1 comes from nowhere else.
C32_LifecycleOrdered ==
    [][/\ (tf.pc = "ready" /\ tf'.pc # "ready")
              => (tf.upg /\ tf.ln = "open" /\ tf.serve # "none")
       /\ (tf'.readied /\ ~tf.readied)
              => (tf.upg /\ tf.ln = "open" /\ tf.serve # "none")
       /\ (tf'.shut /\ ~tf.shut) => tf.exitC
       /\ (tf'.pc = "exited" /\ tf.pc # "exited")
              => (tf.pc \in {"new", "listen", "ready"}
                  /\ tf'.code = 1 /\ ~tf'.readied)
       /\ (tf'.code = 1) => (tf'.pc = "exited" /\ ~tf'.readied)
       /\ (tf'.code = 0) => (tf'.readied /\ tf'.shut /\ tf'.exitC)]_vars

\* A process that went through the whole lifecycle and returned from main.
C32_Witness ==
    /\ tf.pc = "done" /\ tf.code = 0
    /\ tf.readied /\ tf.exitC /\ tf.shut
    /\ tf.serve = "returned"

\* C33: every response carries its own request number, the number and the
\* slow flag of the response are those of the request's "accepted" line,
\* the numbers handed out are 1, 2, 3, ... in the order of the increments,
\* and a request is slow exactly when its number is a multiple of 3.
C33_RequestNumbers ==
    /\ \A r, q \in TfReqs :
          (r # q /\ tf.hpc[r] = "done" /\ tf.hpc[q] = "done")
              => tf.rnum[r] # tf.rnum[q]
    /\ \A r \in TfReqs :
          tf.hpc[r] = "done"
              => /\ tf.rnum[r] = tf.acc[r]
                 /\ tf.rslow[r] = (tf.acc[r] % 3 = 0)
    /\ TfAlive => tf.count = Cardinality({r \in TfReqs :
                                  tf.hpc[r] \notin {"idle", "load", "store"}})

\* =====================================================================
\* The systemd-activation server (src/unnamed/part_000)
\* =====================================================================
sdRest == <<serverVars, tf, px, pk, io>>

\* serve: l.Accept() returns a connection, reqID := atomic.AddUint64(&reqCount, 1),
\* go handleConn(reqID, conn).
SdAccept(s) ==
    /\ sd.spc[s] = "none"
    /\ \A q \in Sess : q < s => sd.spc[q] # "none"
    /\ sd' = [sd EXCEPT !.reqCount = sd.reqCount + 1,
                        !.reqID[s] = sd.reqCount + 1,
                        !.spc[s] = "scan"]
    /\ UNCHANGED sdRest

\* How handleConn handles the non-empty line l as command number k.
SdKind(l, k) ==
    IF l \in {"exit", "quit"} THEN "exit"
    ELSE IF k % 3 = 0 THEN "slow" ELSE "fast"

\* SdScan with the slow work done in handleConn's own loop.
SdScanInline(s, l) ==
    /\ sd.spc[s] = "scan"
    /\ sd.nread[s] < MaxLines
    /\ IF l = ""
       THEN sd' = [sd EXCEPT !.nread[s] = sd.nread[s] + 1]
       ELSE LET k == sd.cmdCount[s] + 1
                h == SdKind(l, k)
            IN  sd' = [sd EXCEPT
                    !.nread[s] = sd.nread[s] + 1,
                    !.cmdCount[s] = k,
                    !.kind[s][k] = h,
                    !.reply[s][k] = IF h = "slow" THEN "pending" ELSE "sent",
                    !.spc[s] = IF h = "exit" THEN "closed"
                               ELSE IF h = "slow" THEN "working" ELSE "scan"]
    /\ UNCHANGED sdRest

\* One iteration of for scanner.Scan(): an empty line is skipped; any other
\* line is counted; exit/quit is answered with goodbye and the deferred
\* c.Close() runs; every 3rd command starts a goroutine and the loop goes on;
\* any other command is answered at once.
SdScan(s, l) ==
    /\ sd.spc[s] = "scan"
    /\ sd.nread[s] < MaxLines
    /\ IF l = ""
       THEN sd' = [sd EXCEPT !.nread[s] = sd.nread[s] + 1]
       ELSE LET k == sd.cmdCount[s] + 1
                h == SdKind(l, k)
            IN  sd' = [sd EXCEPT
                    !.nread[s] = sd.nread[s] + 1,
                    !.cmdCount[s] = k,
                    !.kind[s][k] = h,
                    !.reply[s][k] = IF h = "slow" THEN "pending" ELSE "sent",
                    !.spc[s] = IF h = "exit" THEN "closed" ELSE "scan"]
    /\ UNCHANGED sdRest

\* scanner.Scan() returns false (end of input or a read error): handleConn
\* returns and the deferred c.Close() runs.
SdEndOfInput(s) ==
    /\ sd.spc[s] = "scan"
    /\ sd' = [sd EXCEPT !.spc[s] = "closed"]
    /\ UNCHANGED sdRest

\* The goroutine of slow command k has slept its ten seconds and calls
\* c.Write: the reply goes out, or Write fails on the closed connection
\* and its error is dropped.
SdSlowReply(s, k) ==
    /\ sd.reply[s][k] = "pending"
    /\ sd' = [sd EXCEPT !.reply[s][k] =
                  IF sd.spc[s] = "closed" THEN "lost" ELSE "sent"]
    /\ UNCHANGED sdRest

InitSystemd == ServerNotStarted /\ OthersNotStarted

NextSystemd ==
    \E s \in Sess :
        \/ SdAccept(s)
        \/ \E l \in Lines : SdScan(s, l)
        \/ SdEndOfInput(s)
        \/ \E k \in Ords : SdSlowReply(s, k)

SpecSystemd == InitSystemd /\ [][NextSystemd]_vars

\* The commands of a session are numbered 1..cmdCount by the session's own
\* counter, whatever the other sessions do.
SdCounted ==
    \A s \in Sess :
        /\ sd.cmdCount[s] <= sd.nread[s]
        /\ \A k \in Ords : (sd.kind[s][k] # "none") <=> (k <= sd.cmdCount[s])

\* A slow command leaves the session loop at Scan, and every fast command
\* is answered in the step that read it, pending slow replies or not.
SdNotDelayed ==
    \A s \in Sess :
        /\ sd.spc[s] \in {"none", "scan", "closed"}
        /\ \A k \in Ords : sd.kind[s][k] = "fast" => sd.reply[s][k] = "sent"

\* C34 as stated: every 3rd non-empty command of a session is slow work in
\* a separate task, and a slow command delays nothing that follows it.
C34_EveryThirdSlow ==
    /\ SdCounted
    /\ SdNotDelayed
    /\ \A s \in Sess : \A k \in Ords :
          (k <= sd.cmdCount[s] /\ k % 3 = 0) => sd.kind[s][k] = "slow"

\* C34: a non-empty command that is not exit/quit is slow work in a
\* separate task exactly when its number in the session is a multiple of 3;
\* exit/quit ends the session whatever its number; a slow command delays
\* nothing that follows it.
C34_EveryThirdSlowUnlessExit ==
    /\ SdCounted
    /\ SdNotDelayed
    /\ \A s \in Sess : \A k \in Ords :
          (k <= sd.cmdCount[s] /\ sd.kind[s][k] # "exit")
              => (sd.kind[s][k] = IF k % 3 = 0 THEN "slow" ELSE "fast")
    /\ \A s \in Sess : \A k \in Ords :
          sd.kind[s][k] = "exit" => (k = sd.cmdCount[s] /\ sd.spc[s] = "closed")

\* Command 4 was read and answered while the reply of command 3 is pending,
\* in a session other than the first.
C34_Witness ==
    \E s \in Sess :
        /\ s # 1
        /\ sd.cmdCount[1] \notin {0, sd.cmdCount[s]}
        /\ sd.kind[s][3] = "slow" /\ sd.reply[s][3] = "pending"
        /\ sd.kind[s][4] = "fast" /\ sd.reply[s][4] = "sent"

\* C35: no reply is lost: a session's connection is not closed while the
\* reply of one of its slow commands is pending, so every command other
\* than exit/quit has its reply written to an open connection.
C35_NoReplyLost ==
    \A s \in Sess : \A k \in Ords :
        /\ sd.reply[s][k] # "lost"
        /\ sd.spc[s] = "closed" => sd.reply[s][k] # "pending"

\* =====================================================================
\* The transparent proxy (src/transparentProxy/main.go)
\* =====================================================================
pxRest == <<serverVars, tf, sd, pk, io>>

\* listener.Accept() returns clientConn; go func() { defer clientConn.Close() ...
PxAccept(i) ==
    /\ px.g1[i] = "none"
    /\ \A j \in Pairs : j < i => px.g1[j] # "none"
    /\ px' = [px EXCEPT !.g1[i] = "dial", !.cc[i] = "open", !.cpeer[i] = "open"]
    /\ UNCHANGED pxRest

\* net.Dial succeeds; defer milterConn.Close(); the client -> milter relay is
\* started as a goroutine and the milter -> client relay is entered.
PxDial(i) ==
    /\ px.g1[i] = "dial"
    /\ px' = [px EXCEPT !.g1[i] = "read", !.g2[i] = "read",
                        !.mc[i] = "open", !.mpeer[i] = "open"]
    /\ UNCHANGED pxRest

\* net.Dial fails: return, the deferred clientConn.Close() runs.
PxDialFail(i) ==
    /\ px.g1[i] = "dial"
    /\ px' = [px EXCEPT !.g1[i] = "done", !.cc[i] = "closed"]
    /\ UNCHANGED pxRest

\* The client writes a chunk.
PxClientSend(i) ==
    /\ px.cpeer[i] = "open"
    /\ px.c2p[i] < MaxBuf
    /\ px' = [px EXCEPT !.c2p[i] = px.c2p[i] + 1]
    /\ UNCHANGED pxRest

\* The client closes its end.
PxClientClose(i) ==
    /\ px.cpeer[i] = "open"
    /\ px' = [px EXCEPT !.cpeer[i] = "closed"]
    /\ UNCHANGED pxRest

\* The milter writes a chunk.
PxMilterSend(i) ==
    /\ px.mpeer[i] = "open"
    /\ px.m2p[i] < MaxBuf
    /\ px' = [px EXCEPT !.m2p[i] = px.m2p[i] + 1]
    /\ UNCHANGED pxRest

\* The milter closes its end.
PxMilterClose(i) ==
    /\ px.mpeer[i] = "open"
    /\ px' = [px EXCEPT !.mpeer[i] = "closed"]
    /\ UNCHANGED pxRest

\* transferData(clientConn, milterConn): src.Read returns.  It fails when
\* clientConn has been closed by the other goroutine, returns a chunk when
\* one is waiting, returns io.EOF when the client has closed, and blocks
\* otherwise.  On io.EOF or an error the function returns.
PxG2Read(i) ==
    /\ px.g2[i] = "read"
    /\ \/ /\ px.cc[i] = "closed"
          /\ px' = [px EXCEPT !.g2[i] = "done"]
       \/ /\ px.cc[i] = "open" /\ px.c2p[i] > 0
          /\ px' = [px EXCEPT !.g2[i] = "write", !.c2p[i] = px.c2p[i] - 1]
       \/ /\ px.cc[i] = "open" /\ px.c2p[i] = 0 /\ px.cpeer[i] = "closed"
          /\ px' = [px EXCEPT !.g2[i] = "done"]
    /\ UNCHANGED pxRest

\* transferData(clientConn, milterConn): dst.Write returns.  It fails on a
\* milterConn closed by the other goroutine; towards a milter that has
\* closed it succeeds or fails, as the kernel decides; on an error the
\* function returns.
PxG2Write(i) ==
    /\ px.g2[i] = "write"
    /\ \/ /\ px.mc[i] = "open"
          /\ px' = [px EXCEPT !.g2[i] = "read"]
       \/ /\ px.mc[i] = "closed" \/ px.mpeer[i] = "closed"
          /\ px' = [px EXCEPT !.g2[i] = "done"]
    /\ UNCHANGED pxRest

\* transferData(milterConn, clientConn): src.Read returns a chunk, or io.EOF
\* when the milter has closed, and blocks otherwise.  On io.EOF the function
\* returns, the goroutine ends and its deferred milterConn.Close() and
\* clientConn.Close() run.
PxG1Read(i) ==
    /\ px.g1[i] = "read"
    /\ \/ /\ px.m2p[i] > 0
          /\ px' = [px EXCEPT !.g1[i] = "write", !.m2p[i] = px.m2p[i] - 1]
       \/ /\ px.m2p[i] = 0 /\ px.mpeer[i] = "closed"
          /\ px' = [px EXCEPT !.g1[i] = "done",
                              !.mc[i] = "closed", !.cc[i] = "closed"]
    /\ UNCHANGED pxRest

\* transferData(milterConn, clientConn): dst.Write returns; towards a client
\* that has closed it succeeds or fails, as the kernel decides; on an error
\* the function returns and the deferred closes run.
PxG1Write(i) ==
    /\ px.g1[i] = "write"
    /\ \/ px' = [px EXCEPT !.g1[i] = "read"]
       \/ /\ px.cpeer[i] = "closed"
          /\ px' = [px EXCEPT !.g1[i] = "done",
                              !.mc[i] = "closed", !.cc[i] = "closed"]
    /\ UNCHANGED pxRest

InitProxy == ServerNotStarted /\ OthersNotStarted

NextProxy ==
    \E i \in Pairs :
        \/ PxAccept(i)
        \/ PxDial(i)
        \/ PxDialFail(i)
        \/ PxClientSend(i)
        \/ PxClientClose(i)
        \/ PxMilterSend(i)
        \/ PxMilterClose(i)
        \/ PxG2Read(i)
        \/ PxG2Write(i)
        \/ PxG1Read(i)
        \/ PxG1Write(i)

\* The proxy's goroutines are scheduled and their calls return when they
\* can; nothing is assumed of the client and of the milter.
PxFair ==
    \A i \in Pairs :
        /\ WF_vars(PxDial(i) \/ PxDialFail(i))
        /\ WF_vars(PxG2Read(i))
        /\ WF_vars(PxG2Write(i))
        /\ WF_vars(PxG1Read(i))
        /\ WF_vars(PxG1Write(i))

SpecProxy == InitProxy /\ [][NextProxy]_vars /\ PxFair

\* One side of pair i has gone: the client or the milter has closed its
\* end, or a relay direction has returned.
PxSideGone(i) ==
    /\ px.g1[i] # "none"
    /\ \/ px.cpeer[i] = "closed"
       \/ px.mpeer[i] = "closed"
       \/ px.g2[i] = "done"

\* Both relay directions of pair i have stopped and both connections are closed.
PxTornDown(i) ==
    /\ px.g1[i] = "done"
    /\ px.g2[i] \in {"none", "done"}
    /\ px.cc[i] = "closed"
    /\ px.mc[i] \in {"none", "closed"}

\* C36: once one side of an accepted pair has gone, both relay directions
\* eventually stop and both connections are closed.
C36_BothSidesClosed ==
    \A i \in Pairs : PxSideGone(i) ~> PxTornDown(i)

\* =====================================================================
\* Milter packet framing (src/transparentProxy/main.go)
\* =====================================================================
pkRest == <<serverVars, tf, sd, px, io>>

ByteVals == {0, 1, 255}         \* the byte values of the messages written
RawVals  == {0, 1, 2}           \* the byte values of the streams read

SeqsUpTo(S, n) == UNION {[1..m -> S] : m \in 0..n}

\* binary.BigEndian, uint32
PutUint32(n) ==
    <<(n \div 16777216) % 256, (n \div 65536) % 256, (n \div 256) % 256, n % 256>>

\* (the first byte of the prefixes read here is at most 2)
Uint32(b) == b[1] * 16777216 + b[2] * 65536 + b[3] * 256 + b[4]

\* The bytes WritePacket flushes to the socket: the length of code and data
\* as uint32, the code, the data.  uint32(len(msg.Data) + 1) is the length
\* itself for every Data shorter than 2^32 - 1 bytes.
WritePacket(msg) ==
    PutUint32(Len(msg.Data) + 1) \o <<msg.Code>> \o msg.Data

\* ReadPacket on a socket that delivers the bytes of stream and then ends.
\* binary.Read and io.ReadFull return io.EOF when no byte arrives and
\* io.ErrUnexpectedEOF when the stream ends early; io.ReadFull into an
\* empty slice returns at once, and data[0] of an empty slice is a run-time
\* panic (index out of range).
ReadPacket(stream) ==
    LET Err(e) == [kind |-> "err", msg |-> NoMessage, err |-> e]
    IN  IF Len(stream) = 0 THEN Err("EOF")
        ELSE IF Len(stream) < 4 THEN Err("ErrUnexpectedEOF")
        ELSE LET length == Uint32(SubSeq(stream, 1, 4))
                 rest   == SubSeq(stream, 5, Len(stream))
             IN  IF length = 0
                 THEN [kind |-> "panic", msg |-> NoMessage, err |-> ""]
                 ELSE IF Len(rest) = 0 THEN Err("EOF")
                 ELSE IF Len(rest) < length THEN Err("ErrUnexpectedEOF")
                 ELSE [kind |-> "msg",
                       msg  |-> [Code |-> rest[1], Data |-> SubSeq(rest, 2, length)],
                       err  |-> ""]

\* The inputs: a Message to write and read back, or a byte stream to read.
InitPacket ==
    /\ ServerNotStarted
    /\ tf = TfStart /\ sd = SdStart /\ px = PxStart /\ io = IoStart
    /\ \/ \E c \in ByteVals, d \in SeqsUpTo(ByteVals, MaxData) :
             pk = [PkStart EXCEPT !.step = "msg", !.msg = [Code |-> c, Data |-> d]]
       \/ \E w \in SeqsUpTo(RawVals, MaxRaw) :
             pk = [PkStart EXCEPT !.step = "raw", !.wire = w]

\* WritePacket(sock, &msg)
PkWrite ==
    /\ pk.step = "msg"
    /\ pk' = [pk EXCEPT !.step = "written", !.wire = WritePacket(pk.msg)]
    /\ UNCHANGED pkRest

\* ReadPacket(sock) on the bytes WritePacket produced.
PkReadBack ==
    /\ pk.step = "written"
    /\ pk' = [pk EXCEPT !.step = "read", !.res = ReadPacket(pk.wire)]
    /\ UNCHANGED pkRest

\* ReadPacket(sock) on a given stream.
PkReadRaw ==
    /\ pk.step = "raw"
    /\ pk' = [pk EXCEPT !.step = "read", !.res = ReadPacket(pk.wire)]
    /\ UNCHANGED pkRest

NextPacket == PkWrite \/ PkReadBack \/ PkReadRaw

SpecPacket == InitPacket /\ [][NextPacket]_vars

\* Reading back what WritePacket wrote gives the Message that was written.
PkRoundTrip ==
    (pk.step = "read" /\ pk.wire = WritePacket(pk.msg))
        => (pk.res.kind = "msg" /\ pk.res.msg = pk.msg)

\* C37: ReadPacket of WritePacket's bytes returns a Message with the same
\* Code and Data, for any Code and any Data, the empty one included; and
\* for every stream that begins with a length prefix, length 0 included,
\* ReadPacket returns a Message or an error value.
C37_FramingRoundTrip ==
    /\ PkRoundTrip
    /\ (pk.step = "read" /\ Len(pk.wire) >= 4)
           => pk.res.kind \in {"msg", "err"}

\* =====================================================================
\* The iowait stress program (src/iowait/main.go)
\* =====================================================================
ioRest == <<serverVars, tf, sd, px, pk>>

\* Positions between mutex.Lock() and mutex.Unlock().
IoLocked == {"open", "write", "read", "sleep"}

\* main: go modifyFile2Wait(i), for i = 1, 2, ...
IoSpawn(g) ==
    /\ ~io.fatal
    /\ io.wpc[g] = "unborn"
    /\ \A h \in Workers : h < g => io.wpc[h] # "unborn"
    /\ io' = [io EXCEPT !.wpc[g] = "lock"]
    /\ UNCHANGED ioRest

\* mutex.Lock() returns: the mutex was free.
IoLock(g) ==
    /\ ~io.fatal
    /\ io.wpc[g] = "lock"
    /\ io.iter[g] < MaxIter
    /\ io.mutex = NoWorker
    /\ io' = [io EXCEPT !.mutex = g, !.wpc[g] = "open",
                        !.iter[g] = io.iter[g] + 1, !.rel[g] = 0]
    /\ UNCHANGED ioRest

\* os.OpenFile succeeds.
IoOpen(g) ==
    /\ ~io.fatal
    /\ io.wpc[g] = "open"
    /\ io' = [io EXCEPT !.wpc[g] = "write"]
    /\ UNCHANGED ioRest

\* IoOpenErr that returns without mutex.Unlock().
IoOpenErrNoUnlock(g) ==
    /\ ~io.fatal
    /\ io.wpc[g] = "open"
    /\ io' = [io EXCEPT !.wpc[g] = "returned"]
    /\ UNCHANGED ioRest

\* os.OpenFile fails: mutex.Unlock(); return.
IoOpenErr(g) ==
    /\ ~io.fatal
    /\ io.wpc[g] = "open"
    /\ io' = [io EXCEPT !.wpc[g] = "returned",
                        !.fatal = (io.mutex = NoWorker),
                        !.mutex = NoWorker,
                        !.rel[g] = io.rel[g] + 1]
    /\ UNCHANGED ioRest

\* file.WriteString (an error is only printed); file.Close().
IoWrite(g) ==
    /\ ~io.fatal
    /\ io.wpc[g] = "write"
    /\ io' = [io EXCEPT !.wpc[g] = "read"]
    /\ UNCHANGED ioRest

\* ioutil.ReadFile (an error is only printed).
IoRead(g) ==
    /\ ~io.fatal
    /\ io.wpc[g] = "read"
    /\ io' = [io EXCEPT !.wpc[g] = "sleep"]
    /\ UNCHANGED ioRest

\* time.Sleep(sleepDuration); mutex.Unlock(); next iteration.
IoSleepUnlock(g) ==
    /\ ~io.fatal
    /\ io.wpc[g] = "sleep"
    /\ io' = [io EXCEPT !.wpc[g] = "lock",
                        !.fatal = (io.mutex = NoWorker),
                        !.mutex = NoWorker,
                        !.rel[g] = io.rel[g] + 1]
    /\ UNCHANGED ioRest

InitIowait == ServerNotStarted /\ OthersNotStarted

NextIowait ==
    \E g \in Workers :
        \/ IoSpawn(g)
        \/ IoLock(g)
        \/ IoOpen(g)
        \/ IoOpenErr(g)
        \/ IoWrite(g)
        \/ IoRead(g)
        \/ IoSleepUnlock(g)

SpecIowait == InitIowait /\ [][NextIowait]_vars

\* C38: at most one goroutine is between mutex.Lock and mutex.Unlock, and it
\* is the one that locked the mutex; a goroutine that has left an iteration,
\* by the end of the loop body or by the open-error return, has called
\* Unlock exactly once in it, never on an unlocked mutex; so a goroutine
\* that has returned does not hold the mutex and, whenever nobody is
\* between Lock and Unlock, the mutex is free for those that wait.
C38_FileOpsSerialized ==
    /\ Cardinality({g \in Workers : io.wpc[g] \in IoLocked}) <= 1
    /\ \A g \in Workers :
          /\ (io.wpc[g] \in IoLocked) <=> (io.mutex = g)
          /\ io.wpc[g] \in IoLocked => io.rel[g] = 0
          /\ (io.wpc[g] \in {"lock", "returned"} /\ io.iter[g] > 0)
                 => io.rel[g] = 1
          /\ io.wpc[g] = "returned" => io.mutex # g
    /\ ~io.fatal

\* One goroutine has returned by the open-error path and another one has
\* locked the mutex after it, while a third waits.
C38_Witness ==
    \E g, h, w \in Workers :
        /\ io.wpc[g] = "returned" /\ io.rel[g] = 1
        /\ io.wpc[h] \in IoLocked /\ io.mutex = h
        /\ io.wpc[w] = "lock"

====
